---------------------------- MODULE Spec2Model ----------------------------
(***************************************************************************)
(* A model of the data engine of the UK groundwater dashboard              *)
(* (src/src/data/fetchers.py, processing.py, research.py).                 *)
(*                                                                         *)
(* Each entry point of the engine is one specification:                    *)
(*   SpecMeta      fetch_raw_metadata, then fetch_stations_metadata        *)
(*   SpecTrend     fetch_uk_data (fetch_latest_readings, fetch_trends_data)*)
(*   SpecLink      link_stations_geospatially                              *)
(*   SpecRain      fetch_rainfall_readings, its workers in any order       *)
(*   SpecRainPool  the same with the pool's bounded number of threads      *)
(*   SpecResearch  fetch_research_data                                     *)
(*   SpecCache     the script of app.py over the st.cache_data fetchers    *)
(*   SpecScale     fetch_station_scale                                     *)
(* The external providers are the environment: how each HTTP request ends  *)
(* (a 200 with items, another status, an exception or timeout) is drawn    *)
(* from bounded sets.                                                      *)
(*                                                                         *)
(* Conventions.  A nullable value (None / NaN / a missing JSON value) is a *)
(* sequence of length 0 or 1: Null is << >>, a present value v is <<v>>.   *)
(* A text whose letters matter (a station id, a unit name) is a sequence   *)
(* of one-character strings, so that upper() and lower() and "in" are      *)
(* computed.  A pandas table is a sequence of records (its rows).          *)
(***************************************************************************)
EXTENDS Integers, Sequences, FiniteSets, TLC

VARIABLES
    pc,            \* position of the entry point that is running
    window_days,   \* the comparison window the entry point was called with
    now,           \* datetime.utcnow() of the call, in days
    \* fetch_stations_metadata
    hydroResp,     \* how the Hydro stations request ends
    floodResp,     \* how the Flood stations request ends
    raw_items,     \* fetch_raw_metadata: the list `out`
    stations,      \* what the call produced
    \* fetch_uk_data
    liveResp,      \* how the live measures request ends
    histResp,      \* how the baseline readings request ends
    uk,            \* what the call produced
    \* link_stations_geospatially and fetch_research_data
    gw_df,         \* the groundwater table passed in
    rain_df,       \* what fetch_rainfall_metadata returns
    max_dist_km,   \* the radius passed in
    linked,        \* what link_stations_geospatially produced
    wider_km,      \* the larger radius of a second call on the same tables
    relinked,      \* what the second call produced
    rain_readings, \* what fetch_rainfall_readings returns to fetch_research_data
    petEnv,        \* what the PET lookup table holds for the call
    research,      \* what fetch_research_data produced
    \* fetch_rainfall_readings
    rain_refs,     \* the references passed in
    measuresResp,  \* how the rainfall measures request ends
    measure_map,   \* the measure chosen for each reference, in insertion order
    readingsResp,  \* how the readings request of each dispatched reference ended
    running,       \* the references whose _fetch_accumulated holds a thread of the pool
    combined,      \* the result of each finished _fetch_accumulated
    rain_result,   \* what fetch_rainfall_readings produced
    \* the dashboard session (app.py) and st.cache_data
    clock,         \* the time, in steps of ten minutes
    session,       \* st.session_state: the table kept for each comparison window
    memo,          \* st.cache_data: the memoized result of each cached call
    lastRun,       \* what the last run of the script did
    \* fetch_station_scale
    url,               \* the stageScale URL passed in
    conversion_factor, \* the factor passed in, in thousandths
    scaleResp,         \* how the request of the scale endpoint ends
    scale              \* what the call produced

commonVars == <<window_days, now>>

metaVars == <<hydroResp, floodResp, raw_items, stations>>

trendVars == <<liveResp, histResp, uk>>

linkVars == <<gw_df, rain_df, max_dist_km, linked, wider_km, relinked>>

researchVars == <<rain_readings, petEnv, research>>

rainVars ==
    <<rain_refs, measuresResp, measure_map, readingsResp, running, combined, rain_result>>

cacheVars == <<clock, session, memo, lastRun>>

scaleVars == <<url, conversion_factor, scaleResp, scale>>

vars ==
    <<pc, commonVars, metaVars, trendVars, linkVars, researchVars, rainVars, cacheVars,
      scaleVars>>

---------------------------------------------------------------------------
(* Nullable values, sequences, texts *)

Null == << >>

Some(v) == <<v>>

IsNull(o) == o = Null

SeqsUpTo(S, n) == UNION {[1..k -> S] : k \in 0..n}

Range(s) == {s[i] : i \in DOMAIN s}

Min(S) == CHOOSE x \in S : \A y \in S : x <= y

\* The letters, lower case and upper case at the same index, and the digits.
LowerLetters ==
    <<"a", "b", "c", "d", "e", "f", "g", "h", "i", "j", "k", "l", "m",
      "n", "o", "p", "q", "r", "s", "t", "u", "v", "w", "x", "y", "z">>

UpperLetters ==
    <<"A", "B", "C", "D", "E", "F", "G", "H", "I", "J", "K", "L", "M",
      "N", "O", "P", "Q", "R", "S", "T", "U", "V", "W", "X", "Y", "Z">>

Digits == <<"0", "1", "2", "3", "4", "5", "6", "7", "8", "9">>

IndexIn(s, c) == CHOOSE i \in DOMAIN s : s[i] = c

\* str.upper(), one character
UpperChar(c) ==
    IF c \in Range(LowerLetters) THEN UpperLetters[IndexIn(LowerLetters, c)] ELSE c

\* str.lower(), one character
LowerChar(c) ==
    IF c \in Range(UpperLetters) THEN LowerLetters[IndexIn(UpperLetters, c)] ELSE c

Upper(s) == [i \in DOMAIN s |-> UpperChar(s[i])]

Lower(s) == [i \in DOMAIN s |-> LowerChar(s[i])]

\* Python orders str by code point: digits, then upper case, then lower case.
CodeOrder == Digits \o UpperLetters \o LowerLetters

CharCode(c) == IndexIn(CodeOrder, c)

RECURSIVE StrLess(_, _)
StrLess(a, b) ==
    IF b = << >> THEN FALSE
    ELSE IF a = << >> THEN TRUE
    ELSE IF a[1] # b[1] THEN CharCode(a[1]) < CharCode(b[1])
    ELSE StrLess(Tail(a), Tail(b))

\* The elements of a set of texts in ascending order.
RECURSIVE SortedTexts(_)
SortedTexts(S) ==
    IF S = {} THEN << >>
    ELSE LET m == CHOOSE x \in S : \A y \in S \ {x} : StrLess(x, y)
         IN  <<m>> \o SortedTexts(S \ {m})

\* str(None), what astype(str) makes of a null of an object column
NoneText == <<"N", "o", "n", "e">>

---------------------------------------------------------------------------
(* The entry points at rest: the values their variables have while another *)
(* entry point is the one running.                                         *)

NoTable == [status |-> "none", rows |-> << >>]

NoResponse == [status |-> "non200", items |-> << >>]

EmptyMap == [x \in {} |-> Null]

CommonIdle == window_days = 0 /\ now = 0

MetaIdle ==
    /\ hydroResp = NoResponse
    /\ floodResp = NoResponse
    /\ raw_items = << >>
    /\ stations = NoTable

TrendIdle ==
    /\ liveResp = NoResponse
    /\ histResp = NoResponse
    /\ uk = NoTable

LinkIdle ==
    /\ gw_df = << >>
    /\ rain_df = << >>
    /\ max_dist_km = 0
    /\ linked = NoTable
    /\ wider_km = 0
    /\ relinked = NoTable

ResearchIdle ==
    /\ rain_readings = NoTable
    /\ petEnv = Null
    /\ research = NoTable

RainIdle ==
    /\ rain_refs = << >>
    /\ measuresResp = NoResponse
    /\ measure_map = << >>
    /\ readingsResp = EmptyMap
    /\ running = {}
    /\ combined = EmptyMap
    /\ rain_result = NoTable

NoRun == [status |-> "none"]

NoScale == [status |-> "none"]

ScaleIdle ==
    /\ url = ""
    /\ conversion_factor = 0
    /\ scaleResp = [status |-> "raise"]
    /\ scale = NoScale

CacheIdle ==
    /\ clock = 0
    /\ session = EmptyMap
    /\ memo = EmptyMap
    /\ lastRun = NoRun

---------------------------------------------------------------------------
(* Station metadata: fetch_raw_metadata and fetch_stations_metadata *)

\* The two feeds together serve at most this many items.
MaxFeedItems == 2

\* A feed item's identifier fields: the keys it has, and their values.
IdForms ==
    { [cols |-> {"stationReference"},
       stationReference |-> Some(<<"a", "b", "c", "1">>), wiskiID |-> Null, notation |-> Null],
      [cols |-> {"wiskiID"},
       stationReference |-> Null, wiskiID |-> Some(<<"A", "B", "C", "1">>), notation |-> Null],
      [cols |-> {"stationReference", "wiskiID", "notation"},
       stationReference |-> Null, wiskiID |-> Some(<<"x", "y", "2">>),
       notation |-> Some(<<"a", "b", "c", "1">>)],
      [cols |-> {"notation"},
       stationReference |-> Null, wiskiID |-> Null, notation |-> Some(<<"A", "b", "c", "1">>)],
      [cols |-> {},
       stationReference |-> Null, wiskiID |-> Null, notation |-> Null],
      [cols |-> {"stationReference"},
       stationReference |-> Null, wiskiID |-> Null, notation |-> Null] }

\* A feed item's other fields: coordinates and label.
GeoForms ==
    { [cols |-> {"lat", "long", "label"}, lat |-> Some(51), long |-> Some(0), label |-> Some("A")],
      [cols |-> {"lat"}, lat |-> Null, long |-> Null, label |-> Null],
      [cols |-> {"lat", "long", "label"}, lat |-> Some(52), long |-> Null, label |-> Some("B")] }

\* The item {}: pd.DataFrame([{}]) is empty.
EmptyItem ==
    [cols |-> {}, stationReference |-> Null, wiskiID |-> Null, notation |-> Null,
     lat |-> Null, long |-> Null, label |-> Null]

FeedItems ==
    { [cols |-> i.cols \cup g.cols,
       stationReference |-> i.stationReference, wiskiID |-> i.wiskiID, notation |-> i.notation,
       lat |-> g.lat, long |-> g.long, label |-> g.label] : i \in IdForms, g \in GeoForms }
    \cup {EmptyItem}

\* How a request ends: 200 with the items of the body, another status, or an
\* exception (connection error, timeout, a body that is not JSON).
Failures == { [status |-> "non200", items |-> << >>], [status |-> "raise", items |-> << >>] }

Responses(S, n) == {[status |-> "ok", items |-> s] : s \in SeqsUpTo(S, n)} \cup Failures

Tagged(items, source) == [i \in DOMAIN items |-> [item |-> items[i], source |-> source]]

\* fetch_raw_metadata: one try block around both requests.
FetchRawMetadata(h, f) ==
    LET afterHydro == IF h.status = "ok" THEN Tagged(h.items, "Hydro") ELSE << >>
    IN  IF h.status = "raise" THEN << >>
        ELSE IF f.status = "ok" THEN afterHydro \o Tagged(f.items, "Flood")
        ELSE afterHydro

IdColumns == <<"stationReference", "wiskiID", "notation">>

\* ids[0], then fillna with each further identifier column the item has
RECURSIVE Coalesce(_, _)
Coalesce(item, columns) ==
    IF columns = << >> THEN Null
    ELSE IF Head(columns) \in item.cols /\ ~IsNull(item[Head(columns)])
         THEN item[Head(columns)]
         ELSE Coalesce(item, Tail(columns))

\* .astype(str).str.upper()
AsUpperText(o) == IF IsNull(o) THEN Upper(NoneText) ELSE Upper(o[1])

\* pd.to_numeric(df.get(c), errors='coerce')
ToNumeric(item, c) == IF c \in item.cols THEN item[c] ELSE Null

\* _normalize_station_df on the one-row frame of an item: no row or one row.
NormalizeStation(item) ==
    IF item.cols = {} THEN << >>
    ELSE IF item.cols \cap Range(IdColumns) = {} THEN << >>
    ELSE << [stationReference |-> AsUpperText(Coalesce(item, IdColumns)),
             latitude |-> ToNumeric(item, "lat"),
             longitude |-> ToNumeric(item, "long"),
             station_label |-> IF "label" \in item.cols THEN item.label
                               ELSE Some("Unknown Station")] >>

\* pd.concat of the normalized frames, in the order of raw_items
RECURSIVE ConcatNormalized(_)
ConcatNormalized(entries) ==
    IF entries = << >> THEN << >>
    ELSE NormalizeStation(Head(entries).item) \o ConcatNormalized(Tail(entries))

\* A merge that keeps the group's first row as it is, nulls included.
FirstNonNull_FirstRow(rows, key, col) ==
    rows[Min({i \in DOMAIN rows : rows[i].stationReference = key})][col]

\* GroupBy.first() of one column: the first value of the group that is not null
FirstNonNull(rows, key, col) ==
    LET at == {i \in DOMAIN rows : rows[i].stationReference = key /\ ~IsNull(rows[i][col])}
    IN  IF at = {} THEN Null ELSE rows[Min(at)][col]

\* The concatenation left as it is, without grouping.
GroupByFirst_NoGrouping(rows) == rows

\* combined.groupby('stationReference').first().reset_index(): sorted by key
GroupByFirst(rows) ==
    LET keys == SortedTexts({rows[i].stationReference : i \in DOMAIN rows})
    IN  [k \in DOMAIN keys |->
            [stationReference |-> keys[k],
             latitude |-> FirstNonNull(rows, keys[k], "latitude"),
             longitude |-> FirstNonNull(rows, keys[k], "longitude"),
             station_label |-> FirstNonNull(rows, keys[k], "station_label")]]

HasCoordinates(r) == ~IsNull(r.latitude) /\ ~IsNull(r.longitude)

\* final.dropna(subset=['latitude', 'longitude'])
DropNa(rows) == SelectSeq(rows, HasCoordinates)

\* fetch_stations_metadata: the table returned, or the KeyError of groupby
\* when no item gave a row (the concatenation has no stationReference column).
FetchStationsMetadata(raw) ==
    IF raw = << >> THEN [status |-> "ok", rows |-> << >>]
    ELSE LET concat == ConcatNormalized(raw)
         IN  IF concat = << >> THEN [status |-> "raised", rows |-> << >>]
             ELSE [status |-> "ok", rows |-> DropNa(GroupByFirst(concat))]

InitMeta ==
    /\ CacheIdle /\ ScaleIdle
    /\ CommonIdle /\ TrendIdle /\ LinkIdle /\ ResearchIdle /\ RainIdle
    /\ pc = "meta_start"
    /\ hydroResp \in Responses(FeedItems, MaxFeedItems)
    /\ floodResp \in Responses(FeedItems, MaxFeedItems - Len(hydroResp.items))
    /\ raw_items = << >>
    /\ stations = NoTable

\* fetch_stations_metadata, first statement: raw_items = fetch_raw_metadata()
CallFetchRawMetadata ==
    /\ UNCHANGED <<cacheVars, scaleVars>>
    /\ pc = "meta_start"
    /\ raw_items' = FetchRawMetadata(hydroResp, floodResp)
    /\ pc' = "meta_fetched"
    /\ UNCHANGED <<hydroResp, floodResp, stations>>
    /\ UNCHANGED <<commonVars, trendVars, linkVars, researchVars, rainVars>>

\* fetch_stations_metadata, the rest
MergeStations ==
    /\ UNCHANGED <<cacheVars, scaleVars>>
    /\ pc = "meta_fetched"
    /\ stations' = FetchStationsMetadata(raw_items)
    /\ pc' = "meta_done"
    /\ UNCHANGED <<hydroResp, floodResp, raw_items>>
    /\ UNCHANGED <<commonVars, trendVars, linkVars, researchVars, rainVars>>

NextMeta == CallFetchRawMetadata \/ MergeStations

SpecMeta == InitMeta /\ [][NextMeta]_vars

MetaReturned == pc = "meta_done" /\ stations.status = "ok"

\* C3: in fetch_raw_metadata the failure of one feed's request removes only
\* that feed's items: a feed whose own request ends with a 200 has all its
\* items in the result, however the other feed's request ends.
C3_FeedFailureIsolated ==
    pc \in {"meta_fetched", "meta_done"} =>
        /\ hydroResp.status = "ok" =>
               Range(Tagged(hydroResp.items, "Hydro")) \subseteq Range(raw_items)
        /\ floodResp.status = "ok" =>
               Range(Tagged(floodResp.items, "Flood")) \subseteq Range(raw_items)

\* C4: the table fetch_stations_metadata returns has at most one row per
\* canonical (upper-cased) station id, and no row has a null latitude or
\* a null longitude.
C4_OneRowPerIdWithCoordinates ==
    MetaReturned =>
        \A i \in DOMAIN stations.rows :
            /\ ~IsNull(stations.rows[i].latitude)
            /\ ~IsNull(stations.rows[i].longitude)
            /\ \A j \in DOMAIN stations.rows :
                   i # j => Upper(stations.rows[i].stationReference)
                              # Upper(stations.rows[j].stationReference)

\* C4's case: two feed items whose identifiers differ in case resolve to one
\* id, one of them has no latitude, and the table has the one merged row.
C4_Witness ==
    /\ MetaReturned
    /\ Len(stations.rows) = 1
    /\ LET recs == ConcatNormalized(raw_items)
       IN  /\ Len(raw_items) = 2
           /\ Len(recs) = 2
           /\ Coalesce(raw_items[1].item, IdColumns) # Coalesce(raw_items[2].item, IdColumns)
           /\ recs[1].stationReference = recs[2].stationReference
           /\ IsNull(recs[2].latitude)

\* v is the first value of column col that is not null among the records of
\* id key, taken in the order of the list (null when there is none).
C5_IsFirstNonNull(recs, key, col, v) ==
    \/ /\ IsNull(v)
       /\ \A i \in DOMAIN recs : recs[i].stationReference = key => IsNull(recs[i][col])
    \/ \E i \in DOMAIN recs :
           /\ recs[i].stationReference = key
           /\ ~IsNull(v)
           /\ recs[i][col] = v
           /\ \A j \in 1..(i - 1) :
                  recs[j].stationReference = key => IsNull(recs[j][col])

\* C5: when several feed records resolve to one canonical id, each attribute
\* of the merged row is the first non-null value of that attribute among those
\* records in feed-arrival order (Hydro items before Flood items); an id for
\* which some record has both coordinates has exactly one row, with coordinates.
C5_FirstNonNullPerAttribute ==
    MetaReturned =>
        LET recs == ConcatNormalized(raw_items)
            rows == stations.rows
        IN  /\ \A i, j \in DOMAIN raw_items :
                   i < j => ~(raw_items[i].source = "Flood" /\ raw_items[j].source = "Hydro")
            /\ \A r \in DOMAIN rows :
                   \A col \in {"latitude", "longitude", "station_label"} :
                       C5_IsFirstNonNull(recs, rows[r].stationReference, col, rows[r][col])
            /\ \A i \in DOMAIN recs :
                   HasCoordinates(recs[i]) =>
                       /\ Cardinality({r \in DOMAIN rows :
                              rows[r].stationReference = recs[i].stationReference}) = 1
                       /\ \A r \in DOMAIN rows :
                              rows[r].stationReference = recs[i].stationReference
                                  => HasCoordinates(rows[r])

\* C5's case: a Hydro record without coordinates is followed by a Flood record
\* of the same id with coordinates, and the one merged row carries them.
C5_Witness ==
    /\ MetaReturned
    /\ Len(raw_items) = 2
    /\ raw_items[1].source = "Hydro"
    /\ raw_items[2].source = "Flood"
    /\ LET recs == ConcatNormalized(raw_items)
       IN  /\ Len(recs) = 2
           /\ recs[1].stationReference = recs[2].stationReference
           /\ IsNull(recs[1].latitude)
           /\ HasCoordinates(recs[2])
           /\ Len(stations.rows) = 1
           /\ stations.rows[1].latitude = recs[2].latitude

\* The identifier of an item: the first of stationReference, wiskiID and
\* notation that has a value.
C6_HasId(item) ==
    \E c \in Range(IdColumns) : c \in item.cols /\ ~IsNull(item[c])

C6_FirstId(item) ==
    IF "stationReference" \in item.cols /\ ~IsNull(item.stationReference)
    THEN item.stationReference[1]
    ELSE IF "wiskiID" \in item.cols /\ ~IsNull(item.wiskiID) THEN item.wiskiID[1]
    ELSE item.notation[1]

\* C6: the canonical id of a feed item is the upper case of the first non-null
\* of stationReference, wiskiID, notation, and an item in which none of them
\* has a value (absent or null) produces no station row: every row of the
\* table has the canonical id of an item that has an identifier.
C6_CanonicalIdOrDropped ==
    MetaReturned =>
        \A r \in DOMAIN stations.rows :
            \E i \in DOMAIN raw_items :
                /\ C6_HasId(raw_items[i].item)
                /\ stations.rows[r].stationReference = Upper(C6_FirstId(raw_items[i].item))


---------------------------------------------------------------------------
(* Ground truth: fetch_uk_data, fetch_latest_readings, fetch_trends_data *)
(*                                                                         *)
(* Numbers are fixed-point: a raw reading is an integer count of           *)
(* thousandths of its own unit, a conversion factor an integer count of    *)
(* thousandths (0.001 is 1, 0.01 is 10, 1.0 is 1000), so a canonical value *)
(* (raw times factor) is an integer count of micrometres.                  *)

\* The live items and the baseline readings together are at most this many.
MaxTrendItems == 2

\* config.TREND_THRESHOLD, 0.002 m, in micrometres
TREND_THRESHOLD == 2000

WindowChoices == {0, 1}

StationE1 == <<"E", "1">>

LiveStationRefs == {<<"e", "1">>, <<"E", "2">>}

UnitNames == {<<"m", "m">>, <<"C", "m">>, <<"m", "A", "O", "D">>}

\* How the latestReading of a live item is formed: an object whose value is
\* absent or a number, an object whose value is not a number, or no object
\* at all (a text).
WellFormed == "object"

Malformations == {"value_not_a_number", "not_an_object"}

\* A live measure item; its '@id' is its position in the response.
LiveItems ==
    [stationReference : LiveStationRefs, unitName : UnitNames,
     value : {Null, Some(10503), Some(10508)}, latestReading : {WellFormed}]
    \cup [stationReference : {<<"E", "2">>}, unitName : {<<"m", "m">>},
          value : {Some(10503)}, latestReading : Malformations]

MeasureIds == 1..2

\* A reading of the baseline day.
HistItems ==
    [measure : MeasureIds, value : {Null, Some(10500), Some(10506)}, dateTime : 1..2]

\* A measure has one reading per time stamp.
DistinctTimes(items) ==
    \A i, j \in DOMAIN items :
        i # j => ~(items[i].measure = items[j].measure
                     /\ items[i].dateTime = items[j].dateTime)

\* sub in s
Contains(sub, s) ==
    \E i \in 1..(Len(s) - Len(sub) + 1) : SubSeq(s, i, i + Len(sub) - 1) = sub

\* A factor chosen on the unit name as written, without lower().
ConvFactor_CaseSensitive(unitName) ==
    IF Contains(<<"m", "m">>, unitName) THEN 1
    ELSE IF Contains(<<"c", "m">>, unitName) THEN 10
    ELSE 1000

\* conv = 0.001 if 'mm' in unit else (0.01 if 'cm' in unit else 1.0)
ConvFactor(unitName) ==
    LET unit == Lower(unitName)
    IN  IF Contains(<<"m", "m">>, unit) THEN 1
        ELSE IF Contains(<<"c", "m">>, unit) THEN 10
        ELSE 1000

\* fetch_latest_readings_raw: the items of a 200, [] otherwise
FetchLatestReadingsRaw(resp) == IF resp.status = "ok" THEN resp.items ELSE << >>

\* fetch_latest_readings: one row per item that has a value
RECURSIVE LatestRows(_, _)
LatestRows(items, k) ==
    IF k > Len(items) THEN << >>
    ELSE LET it == items[k]
             conv == ConvFactor(it.unitName)
         IN  (IF IsNull(it.value) THEN << >>
              ELSE << [stationReference |-> Upper(it.stationReference),
                       measure_url |-> k,
                       latest_value |-> it.value[1] * conv,
                       conv_factor |-> conv] >>)
             \o LatestRows(items, k + 1)

FetchLatestReadings(resp) == LatestRows(FetchLatestReadingsRaw(resp), 1)

\* latest.get('value') on a text and float(val) on what is not a number
\* raise; fetch_latest_readings has no handler of its own.
RaisesDataError(it) == it.latestReading \in Malformations

LatestReadingsRaise(resp) ==
    \E k \in DOMAIN FetchLatestReadingsRaw(resp) :
        RaisesDataError(FetchLatestReadingsRaw(resp)[k])

\* drop_duplicates(keep='last'): the last row of each id.
DropDuplicates_KeepLast(rows) ==
    LET keep == {i \in DOMAIN rows :
                    \A j \in (i + 1)..Len(rows) :
                        rows[j].stationReference # rows[i].stationReference}
        F[i \in 0..Len(rows)] ==
            IF i = 0 THEN << >>
            ELSE IF i \in keep THEN Append(F[i - 1], rows[i]) ELSE F[i - 1]
    IN  F[Len(rows)]

\* meas.drop_duplicates(subset=['stationReference']): the first row of each id
DropDuplicates(rows) ==
    LET keep == {i \in DOMAIN rows :
                    \A j \in 1..(i - 1) : rows[j].stationReference # rows[i].stationReference}
        F[i \in 0..Len(rows)] ==
            IF i = 0 THEN << >>
            ELSE IF i \in keep THEN Append(F[i - 1], rows[i]) ELSE F[i - 1]
    IN  F[Len(rows)]

\* pd.merge(meta, meas, on='stationReference', how='inner'); meta has one row per id
RECURSIVE InnerJoin(_, _)
InnerJoin(meta, meas) ==
    IF meta = << >> THEN << >>
    ELSE LET m == Head(meta)
             at == {i \in DOMAIN meas : meas[i].stationReference = m.stationReference}
         IN  (IF at = {} THEN << >>
              ELSE << [stationReference |-> m.stationReference,
                       latitude |-> m.latitude,
                       measure_url |-> meas[Min(at)].measure_url,
                       latest_value |-> meas[Min(at)].latest_value,
                       conv_factor |-> meas[Min(at)].conv_factor] >>)
             \o InnerJoin(Tail(meta), meas)

\* df.sort_values('dateTime'): insertion of each reading after those not later
RECURSIVE SortByTime(_)
SortByTime(items) ==
    IF items = << >> THEN << >>
    ELSE LET rest == SortByTime(SubSeq(items, 1, Len(items) - 1))
             x == items[Len(items)]
             before == SelectSeq(rest, LAMBDA y : y.dateTime <= x.dateTime)
             after == SelectSeq(rest, LAMBDA y : y.dateTime > x.dateTime)
         IN  before \o <<x>> \o after

\* .groupby('measure').first(): per measure, the earliest value that is not null
BaselinePoints(items) ==
    LET sorted == SortByTime(items)
    IN  [m \in {sorted[i].measure : i \in DOMAIN sorted} |->
            LET at == {i \in DOMAIN sorted :
                          sorted[i].measure = m /\ ~IsNull(sorted[i].value)}
            IN  IF at = {} THEN Null ELSE sorted[Min(at)].value]

\* fetch_historical_snapshot_raw, or the request of FLOOD_TODAY_URL: the items
\* of a 200; a failure leaves no baseline table (the exception of the inline
\* request is caught by fetch_trends_data, which returns the defaults).
HistoryItems(resp) == IF resp.status = "ok" THEN resp.items ELSE << >>

\* A conversion inferred from the baseline reading itself, which has no unit.
NormalizedBaseline_Inferred(hist_value, conv_factor) ==
    IF IsNull(hist_value) THEN Null ELSE Some(hist_value[1] * ConvFactor(<<"m">>))

\* dm['hist_value'] * dm['conv_factor'].fillna(1.0)
NormalizedBaseline(hist_value, conv_factor) ==
    IF IsNull(hist_value) THEN Null ELSE Some(hist_value[1] * conv_factor)

\* A dead band that excludes its own edge.
TrendLabel_ClosedEdge(lv, hv) ==
    IF IsNull(hv) THEN "Stable"
    ELSE IF lv - hv[1] >= TREND_THRESHOLD THEN "Rising"
    ELSE IF lv - hv[1] <= -TREND_THRESHOLD THEN "Falling"
    ELSE "Stable"

\* _get_trend_meta: the label (icon and colour go with the label)
TrendLabel(lv, hv) ==
    IF IsNull(hv) THEN "Stable"
    ELSE LET diff == lv - hv[1]
         IN  IF diff > TREND_THRESHOLD THEN "Rising"
             ELSE IF diff < -TREND_THRESHOLD THEN "Falling"
             ELSE "Stable"

\* A label computed also when the baseline is missing, against zero.
PeriodDelta_NullAsZero(lv, hv) == IF IsNull(hv) THEN lv ELSE lv - hv[1]

\* dm['latest_value'] - dm['hist_value_norm'].fillna(dm['latest_value'])
PeriodDelta(lv, hv) == IF IsNull(hv) THEN lv - lv ELSE lv - hv[1]

\* The safe defaults of fetch_trends_data, returned when there is no baseline table.
DefaultTrend(r) ==
    [stationReference |-> r.stationReference, latitude |-> r.latitude,
     measure_url |-> r.measure_url, latest_value |-> r.latest_value,
     conv_factor |-> r.conv_factor,
     hist_value |-> Null, hist_value_norm |-> Some(r.latest_value),
     period_delta |-> 0, trend_label |-> "Stable"]

\* The left merge with the baseline points and the columns computed from it.
MergedTrend(r, pts) ==
    LET hist == IF r.measure_url \in DOMAIN pts THEN pts[r.measure_url] ELSE Null
        norm == NormalizedBaseline(hist, r.conv_factor)
    IN  [stationReference |-> r.stationReference, latitude |-> r.latitude,
         measure_url |-> r.measure_url, latest_value |-> r.latest_value,
         conv_factor |-> r.conv_factor,
         hist_value |-> hist, hist_value_norm |-> norm,
         period_delta |-> PeriodDelta(r.latest_value, norm),
         trend_label |-> TrendLabel(r.latest_value, norm)]

\* fetch_trends_data
FetchTrendsData(df, resp) ==
    LET items == HistoryItems(resp)
    IN  IF df = << >> THEN df
        ELSE IF items = << >> THEN [i \in DOMAIN df |-> DefaultTrend(df[i])]
        ELSE [i \in DOMAIN df |-> MergedTrend(df[i], BaselinePoints(items))]

\* What fetch_stations_metadata gives fetch_uk_data: it raised, or a table.
MetaOutcomes ==
    { [status |-> "raised", rows |-> << >>],
      [status |-> "ok", rows |-> << >>],
      [status |-> "ok", rows |-> << [stationReference |-> StationE1, latitude |-> Some(51)] >>],
      [status |-> "ok", rows |-> << [stationReference |-> StationE1, latitude |-> Some(51)],
                                  [stationReference |-> <<"E", "2">>, latitude |-> Some(52)] >>] }

\* Does the try block of fetch_uk_data raise?  The fetchers catch the
\* exceptions of their own requests; what is left is fetch_stations_metadata
\* or fetch_latest_readings raising on the data.
UkBodyRaises(meta, live) == meta.status = "raised" \/ LatestReadingsRaise(live)

\* A handler that lets the exception through to the caller.
OnException_Reraise == [status |-> "raised", rows |-> << >>]

\* except Exception: log and return pd.DataFrame()
OnException == [status |-> "ok", rows |-> << >>]

\* fetch_uk_data
FetchUkData(meta, live, hist) ==
    LET meas == FetchLatestReadings(live)
    IN  IF UkBodyRaises(meta, live) THEN OnException.rows
        ELSE IF meta.rows = << >> \/ meas = << >> THEN << >>
        ELSE FetchTrendsData(InnerJoin(meta.rows, DropDuplicates(meas)), hist)

InitTrend ==
    /\ CacheIdle /\ ScaleIdle
    /\ LinkIdle /\ ResearchIdle /\ RainIdle
    /\ hydroResp = NoResponse
    /\ floodResp = NoResponse
    /\ raw_items = << >>
    /\ stations \in MetaOutcomes
    /\ pc = "uk_start"
    /\ window_days \in WindowChoices
    /\ now = 0
    /\ liveResp \in Responses(LiveItems, MaxTrendItems)
    /\ histResp \in Responses(HistItems, MaxTrendItems - Len(liveResp.items))
    /\ DistinctTimes(histResp.items)
    /\ uk = NoTable

\* fetch_uk_data(window_days): the baseline is today's readings for a window
\* of 0 days and the snapshot of the day window_days ago otherwise.
CallFetchUkData ==
    /\ UNCHANGED <<cacheVars, scaleVars>>
    /\ pc = "uk_start"
    /\ uk' = IF UkBodyRaises(stations, liveResp) THEN OnException
             ELSE [status |-> "ok", rows |-> FetchUkData(stations, liveResp, histResp)]
    /\ pc' = "uk_done"
    /\ UNCHANGED <<liveResp, histResp>>
    /\ UNCHANGED <<commonVars, metaVars, linkVars, researchVars, rainVars>>

NextTrend == CallFetchUkData

SpecTrend == InitTrend /\ [][NextTrend]_vars


UkReturned == pc = "uk_done" /\ uk.status = "ok"

\* The readings of measure m in the baseline response that carry a value.
BaselineReadings(m) ==
    IF histResp.status # "ok" THEN {}
    ELSE {i \in DOMAIN histResp.items :
             histResp.items[i].measure = m /\ ~IsNull(histResp.items[i].value)}

HasBaseline(m) == BaselineReadings(m) # {}

\* The raw baseline value of measure m: its earliest reading with a value.
BaselineValue(m) ==
    LET first == CHOOSE i \in BaselineReadings(m) :
                     \A j \in BaselineReadings(m) :
                         histResp.items[i].dateTime <= histResp.items[j].dateTime
    IN  histResp.items[first].value[1]

\* C7: for every station with a baseline value, diff = current - normalized
\* baseline, and the label is Rising iff diff > threshold, Falling iff
\* diff < -threshold, Stable iff |diff| <= threshold, the threshold being
\* config.TREND_THRESHOLD (0.002 m).
C7_TrendFromDiff ==
    UkReturned =>
        \A i \in DOMAIN uk.rows :
            LET r == uk.rows[i]
                diff == r.latest_value - BaselineValue(r.measure_url) * r.conv_factor
            IN  HasBaseline(r.measure_url) =>
                    /\ r.period_delta = diff
                    /\ r.trend_label = "Rising" <=> diff > TREND_THRESHOLD
                    /\ r.trend_label = "Falling" <=> diff < -TREND_THRESHOLD
                    /\ r.trend_label = "Stable" <=>
                           (diff <= TREND_THRESHOLD /\ -diff <= TREND_THRESHOLD)

\* C7's case: current 10.503 m against a baseline of 10.500 m is Rising by 0.003 m.
C7_Witness ==
    /\ UkReturned
    /\ \E i \in DOMAIN uk.rows :
           /\ HasBaseline(uk.rows[i].measure_url)
           /\ uk.rows[i].latest_value = 10503000
           /\ uk.rows[i].hist_value_norm = Some(10500000)
           /\ uk.rows[i].period_delta = 3000
           /\ uk.rows[i].trend_label = "Rising"

\* C8: in every trend comparison the raw baseline value of a station is
\* multiplied by the conversion factor recorded for that station's live
\* reading (the row's conv_factor, derived from the unit of the live item the
\* row was made from), so that current and baseline are in one unit.
C8_BaselineUsesLiveFactor ==
    UkReturned =>
        \A i \in DOMAIN uk.rows :
            LET r == uk.rows[i]
                live == liveResp.items[r.measure_url]
            IN  /\ r.stationReference = Upper(live.stationReference)
                /\ r.conv_factor = ConvFactor(live.unitName)
                /\ r.latest_value = live.value[1] * ConvFactor(live.unitName)
                /\ HasBaseline(r.measure_url) =>
                       r.hist_value_norm
                           = Some(BaselineValue(r.measure_url) * ConvFactor(live.unitName))

\* C8's case: a station read in millimetres, whose baseline of 10.500 mm is
\* scaled by 0.001 like its live reading.
C8_Witness ==
    /\ UkReturned
    /\ \E i \in DOMAIN uk.rows :
           /\ liveResp.items[uk.rows[i].measure_url].unitName = <<"m", "m">>
           /\ HasBaseline(uk.rows[i].measure_url)
           /\ uk.rows[i].conv_factor = 1
           /\ uk.rows[i].hist_value = Some(10500)
           /\ uk.rows[i].hist_value_norm = Some(10500)

\* C9: a station for which no baseline value exists (no baseline table at
\* all, no baseline row for its measure, or a null baseline) gets the label
\* Stable and a period_delta of 0, never Rising or Falling.
C9_NoBaselineIsStable ==
    UkReturned =>
        \A i \in DOMAIN uk.rows :
            ~HasBaseline(uk.rows[i].measure_url) =>
                /\ uk.rows[i].trend_label = "Stable"
                /\ uk.rows[i].period_delta = 0

\* C9's case: the baseline table has a row for the station's measure, with a
\* null value.
C9_Witness ==
    /\ UkReturned
    /\ \E i \in DOMAIN uk.rows :
           /\ ~HasBaseline(uk.rows[i].measure_url)
           /\ \E j \in DOMAIN histResp.items :
                  histResp.items[j].measure = uk.rows[i].measure_url
           /\ uk.rows[i].trend_label = "Stable"
           /\ uk.rows[i].period_delta = 0


\* The live items that are well formed and carry a value.
GoodLiveItems ==
    IF liveResp.status # "ok" THEN {}
    ELSE {k \in DOMAIN liveResp.items :
             /\ liveResp.items[k].latestReading = WellFormed
             /\ ~IsNull(liveResp.items[k].value)}

\* The ids of the station table fetch_uk_data joins with.
KnownStations == {stations.rows[i].stationReference : i \in DOMAIN stations.rows}

\* C17: a data error in one live item (a value that is not a number, a
\* malformed latestReading) excludes that item's row only: every well-formed
\* item of the same response whose station is known still has its row in the
\* ground-truth table, and the table is not emptied.
C17_DataErrorExcludesOneRow ==
    (UkReturned /\ stations.status = "ok") =>
        \A k \in GoodLiveItems :
            Upper(liveResp.items[k].stationReference) \in KnownStations =>
                \E i \in DOMAIN uk.rows :
                    uk.rows[i].stationReference = Upper(liveResp.items[k].stationReference)

\* A request of the call timed out, answered another status than 200 or
\* answered with what is not JSON.
TransportFailure == liveResp.status # "ok" \/ histResp.status # "ok"

ValuedItemsOf(id) ==
    {k \in DOMAIN liveResp.items :
        /\ Upper(liveResp.items[k].stationReference) = id
        /\ ~IsNull(liveResp.items[k].value)}

\* C19: the ground-truth table has at most one row per station id, and when
\* several live items share a station id the row's value, measure reference
\* and conversion factor are those of the first such item, in input order,
\* that has a value.
C19_FirstValuedItemPerStation ==
    UkReturned =>
        /\ \A i, j \in DOMAIN uk.rows :
               uk.rows[i].stationReference = uk.rows[j].stationReference => i = j
        /\ \A i \in DOMAIN uk.rows :
               LET S == ValuedItemsOf(uk.rows[i].stationReference)
               IN  /\ S # {}
                   /\ LET first == CHOOSE k \in S : \A l \in S : k <= l
                          item == liveResp.items[first]
                      IN  /\ uk.rows[i].measure_url = first
                          /\ uk.rows[i].conv_factor = ConvFactor(item.unitName)
                          /\ uk.rows[i].latest_value
                                 = item.value[1] * ConvFactor(item.unitName)

\* C19's case: two live items of one station, both with a value, of
\* different units; the row is that of the first.
C19_Witness ==
    /\ UkReturned
    /\ Len(liveResp.items) = 2
    /\ Cardinality(ValuedItemsOf(StationE1)) = 2
    /\ ConvFactor(liveResp.items[1].unitName) # ConvFactor(liveResp.items[2].unitName)
    /\ Len(uk.rows) = 1
    /\ uk.rows[1].measure_url = 1
    /\ uk.rows[1].conv_factor = ConvFactor(liveResp.items[1].unitName)

\* The factor the unit name stands for, in thousandths: 0.001 for a name
\* that has "mm" in any letter case, else 0.01 for one that has "cm", else 1.0.
C21_Factor(unitName) ==
    LET HasAnyCase(u) ==
            \E i \in 1..(Len(unitName) - 1) :
                Lower(<<unitName[i], unitName[i + 1]>>) = u
    IN  IF HasAnyCase(<<"m", "m">>) THEN 1
        ELSE IF HasAnyCase(<<"c", "m">>) THEN 10
        ELSE 1000

\* C21: every live-measurement item that carries a value gives a row whose
\* conversion factor is 0.001 if the lower-cased unit name contains 'mm',
\* else 0.01 if it contains 'cm', else 1.0, whose canonical value is the raw
\* value times that factor, and which retains the factor; the rows of the
\* table fetch_uk_data returns carry the same factor and value.
C21_UnitConversion ==
    (pc = "uk_done" /\ ~LatestReadingsRaise(liveResp)) =>
        LET items == FetchLatestReadingsRaw(liveResp)
            rows == FetchLatestReadings(liveResp)
            Converted(r) ==
                LET f == C21_Factor(items[r.measure_url].unitName)
                IN  /\ r.conv_factor = f
                    /\ r.latest_value = items[r.measure_url].value[1] * f
        IN  /\ \A k \in DOMAIN items :
                   ~IsNull(items[k].value) =>
                       \E i \in DOMAIN rows : rows[i].measure_url = k
            /\ \A i \in DOMAIN rows : Converted(rows[i])
            /\ \A i \in DOMAIN uk.rows : Converted(uk.rows[i])

\* C21's case: one response with a reading of 10.503 in "Cm" and one in
\* "mAOD"; the returned row of the first has the factor 0.01.
C21_Witness ==
    /\ UkReturned
    /\ \E j, k \in DOMAIN liveResp.items :
           /\ liveResp.items[j].unitName = <<"C", "m">>
           /\ liveResp.items[k].unitName = <<"m", "A", "O", "D">>
           /\ liveResp.items[j].value = Some(10503)
           /\ ~IsNull(liveResp.items[k].value)
           /\ \E i \in DOMAIN uk.rows :
                  /\ uk.rows[i].measure_url = j
                  /\ uk.rows[i].conv_factor = 10
                  /\ uk.rows[i].latest_value = 105030

---------------------------------------------------------------------------
(* Geospatial linking: link_stations_geospatially *)
(*                                                                         *)
(* The stations lie on one meridian, latitudes counted in steps of 5 km of *)
(* arc: with dlon = 0 the haversine formula gives R * |dlat|, that is      *)
(* 5 km per step.                                                          *)

MaxGw == 2

MaxRain == 3

\* max_dist_km: float = 15.0
DEFAULT_MAX_DIST_KM == 15

\* haversine(lat1, lon1, lat2, lon2) for two points of the meridian, in km
Haversine(lat1, lat2) == 5 * (IF lat1 >= lat2 THEN lat1 - lat2 ELSE lat2 - lat1)

GwPositions == {0, 2, 9}

RainPositions == 0..5

GwRefs == <<"G1", "G2", "G3">>

RainRefs == <<"R1", "R2", "R3", "R4">>

TrendLabels == {Some("Rising"), Some("Falling"), Some("Stable")}

\* A ground-truth table: one row per station, ids distinct.
GwTable(cells) ==
    [k \in DOMAIN cells |->
        [stationReference |-> GwRefs[k], latitude |-> cells[k].latitude,
         trend_label |-> cells[k].trend_label]]

\* The table of active rainfall stations, refs distinct.
RainTable(positions) ==
    [k \in DOMAIN positions |->
        [rain_station_ref |-> RainRefs[k], rain_latitude |-> positions[k]]]

\* An inner loop that keeps the last gauge at the least distance
\* (dist <= min_dist).
RECURSIVE NearestFrom_LastAtMinimum(_, _, _, _)
NearestFrom_LastAtMinimum(gw, rain, k, best) ==
    IF k > Len(rain) THEN best
    ELSE LET dist == Haversine(gw.latitude, rain[k].rain_latitude)
         IN  NearestFrom_LastAtMinimum(gw, rain, k + 1,
                                       IF best.idx = 0 \/ dist <= best.dist
                                       THEN [idx |-> k, dist |-> dist] ELSE best)

\* The inner loop: the first gauge at the least distance (dist < min_dist);
\* idx = 0 stands for best_match = None, min_dist = inf.
RECURSIVE NearestFrom(_, _, _, _)
NearestFrom(gw, rain, k, best) ==
    IF k > Len(rain) THEN best
    ELSE LET dist == Haversine(gw.latitude, rain[k].rain_latitude)
         IN  NearestFrom(gw, rain, k + 1,
                         IF best.idx = 0 \/ dist < best.dist
                         THEN [idx |-> k, dist |-> dist] ELSE best)

Nearest(gw, rain) == NearestFrom(gw, rain, 1, [idx |-> 0, dist |-> 0])

\* A radius that excludes its own edge.
WithinRadius_Strict(min_dist, max_km) == min_dist < max_km

\* min_dist <= max_dist_km
WithinRadius(min_dist, max_km) == min_dist <= max_km

HasLink(gw, rain, max_km) ==
    Nearest(gw, rain).idx # 0 /\ WithinRadius(Nearest(gw, rain).dist, max_km)

\* A link to the last gauge of the table that lies within the radius, in
\* place of the nearest one.
WithLink_LastWithinRadius(gw, rain, max_km) ==
    LET within == {k \in DOMAIN rain :
                      WithinRadius(Haversine(gw.latitude, rain[k].rain_latitude), max_km)}
        last == CHOOSE k \in within : \A j \in within : j <= k
    IN  [stationReference |-> gw.stationReference, latitude |-> gw.latitude,
         trend_label |-> gw.trend_label,
         rain_ref |-> IF within # {} THEN Some(rain[last].rain_station_ref) ELSE Null,
         rain_dist_km |-> IF within # {}
                          THEN Some(Haversine(gw.latitude, rain[last].rain_latitude))
                          ELSE Null]

\* pd.merge(gw_df, link_df, on='stationReference', how='left'), one row
WithLink(gw, rain, max_km) ==
    LET best == Nearest(gw, rain)
        has == HasLink(gw, rain, max_km)
    IN  [stationReference |-> gw.stationReference, latitude |-> gw.latitude,
         trend_label |-> gw.trend_label,
         rain_ref |-> IF has THEN Some(rain[best.idx].rain_station_ref) ELSE Null,
         rain_dist_km |-> IF has THEN Some(best.dist) ELSE Null]

\* A linker without the early return on an empty table: the link columns are
\* always added, null where there is no link.
LinkStationsGeospatially_NullColumns(gw, rain, max_km) ==
    [status |-> "ok", cols |-> TRUE,
     rows |-> [i \in DOMAIN gw |-> WithLink(gw[i], rain, max_km)]]

\* link_stations_geospatially: cols tells whether the link columns exist
LinkStationsGeospatially(gw, rain, max_km) ==
    IF gw = << >> \/ rain = << >> THEN [status |-> "ok", cols |-> FALSE, rows |-> gw]
    ELSE IF \A i \in DOMAIN gw : ~HasLink(gw[i], rain, max_km)
         THEN [status |-> "ok", cols |-> FALSE, rows |-> gw]
    ELSE [status |-> "ok", cols |-> TRUE,
          rows |-> [i \in DOMAIN gw |-> WithLink(gw[i], rain, max_km)]]

\* The radii of a second call.
WiderRadii == {DEFAULT_MAX_DIST_KM, 25}

InitLink ==
    /\ CacheIdle /\ ScaleIdle
    /\ CommonIdle /\ MetaIdle /\ TrendIdle /\ ResearchIdle /\ RainIdle
    /\ pc = "link_start"
    /\ gw_df \in {GwTable(c) :
                    c \in SeqsUpTo([latitude : GwPositions, trend_label : {Some("Stable")}],
                                   MaxGw)}
    /\ rain_df \in {RainTable(p) : p \in SeqsUpTo(RainPositions, MaxRain)}
    /\ max_dist_km \in {10, DEFAULT_MAX_DIST_KM}
    /\ linked = NoTable
    /\ wider_km = 0
    /\ relinked = NoTable

\* link_stations_geospatially(gw_df, max_dist_km)
CallLinkStations ==
    /\ UNCHANGED <<cacheVars, scaleVars>>
    /\ pc = "link_start"
    /\ linked' = LinkStationsGeospatially(gw_df, rain_df, max_dist_km)
    /\ pc' = "link_done"
    /\ UNCHANGED <<gw_df, rain_df, max_dist_km, wider_km, relinked>>
    /\ UNCHANGED <<commonVars, metaVars, trendVars, researchVars, rainVars>>

\* A second call on the same two tables with a larger radius.
CallLinkStationsAgain ==
    /\ UNCHANGED <<cacheVars, scaleVars>>
    /\ pc = "link_done"
    /\ \E km \in WiderRadii :
           /\ km > max_dist_km
           /\ wider_km' = km
           /\ relinked' = LinkStationsGeospatially(gw_df, rain_df, km)
    /\ pc' = "link_again"
    /\ UNCHANGED <<gw_df, rain_df, max_dist_km, linked>>
    /\ UNCHANGED <<commonVars, metaVars, trendVars, researchVars, rainVars>>

NextLink == CallLinkStations \/ CallLinkStationsAgain

SpecLink == InitLink /\ [][NextLink]_vars

LinkReturned == pc = "link_done" /\ linked.status = "ok"

\* The distances from a groundwater station to every rainfall station.
GaugeDistances(gw) ==
    {Haversine(gw.latitude, rain_df[k].rain_latitude) : k \in DOMAIN rain_df}

IsLinked(i) == linked.cols /\ ~IsNull(linked.rows[i].rain_ref)

C23_WiderRadiusKeepsLinks ==
    pc = "link_again" =>
        /\ wider_km > max_dist_km
        /\ Len(relinked.rows) = Len(linked.rows)
        /\ \A i \in DOMAIN gw_df :
               IsLinked(i) =>
                   /\ relinked.cols
                   /\ relinked.rows[i].stationReference = linked.rows[i].stationReference
                   /\ relinked.rows[i].rain_ref = linked.rows[i].rain_ref
                   /\ relinked.rows[i].rain_dist_km = linked.rows[i].rain_dist_km

\* C23's case: with a radius of 10 km the first station is linked and the
\* second is not; with 25 km the first keeps its gauge, although another
\* gauge is now within the radius too, and the second gets a link.
C23_Witness ==
    /\ pc = "link_again"
    /\ max_dist_km = 10
    /\ wider_km = 25
    /\ Len(gw_df) = 2
    /\ IsLinked(1)
    /\ ~IsLinked(2)
    /\ Cardinality({d \in GaugeDistances(gw_df[1]) : d <= 25}) >= 2
    /\ relinked.rows[1].rain_ref = linked.rows[1].rain_ref
    /\ ~IsNull(relinked.rows[2].rain_ref)

\* C24: when the groundwater table or the rainfall station table is empty,
\* link_stations_geospatially returns the groundwater table unchanged: same
\* rows, same columns, no link columns added.
C24_EmptyInputReturnsTableUnchanged ==
    (LinkReturned /\ (gw_df = << >> \/ rain_df = << >>)) =>
        /\ ~linked.cols
        /\ linked.rows = gw_df

\* C24's case: two groundwater stations and no rainfall station.
C24_Witness ==
    /\ LinkReturned
    /\ Len(gw_df) = 2
    /\ rain_df = << >>
    /\ linked.rows = gw_df
    /\ ~linked.cols

\* The rainfall stations at the least distance from groundwater station i.
NearestGauges(i) ==
    {k \in DOMAIN rain_df :
        Haversine(gw_df[i].latitude, rain_df[k].rain_latitude)
            = Min(GaugeDistances(gw_df[i]))}

\* C25: when several rainfall stations are at the same least distance from a
\* groundwater station, it is linked to the first of them in the order of the
\* rainfall table.
C25_TieGoesToFirstGauge ==
    LinkReturned =>
        \A i \in DOMAIN gw_df :
            IsLinked(i) =>
                linked.rows[i].rain_ref
                    = Some(rain_df[Min(NearestGauges(i))].rain_station_ref)

\* C25's case: the second and the third gauge of the table are both 5 km from
\* the station, on either side of it, the first is farther; the link is to
\* the second.
C25_Witness ==
    /\ LinkReturned
    /\ Len(gw_df) >= 1
    /\ IsLinked(1)
    /\ NearestGauges(1) = {2, 3}
    /\ rain_df[2].rain_latitude # rain_df[3].rain_latitude
    /\ linked.rows[1].rain_ref = Some(rain_df[2].rain_station_ref)
    /\ linked.rows[1].rain_dist_km = Some(5)

---------------------------------------------------------------------------
(* Accumulated rainfall: fetch_rainfall_readings (research.py) *)

\* Readings served over all the stations of one call, at most.
MaxReadings == 2

LAG_DAYS == 7

\* datetime.utcnow() of the call, in days.
NowChoices == {100}

RainWindowChoices == {1, 2}

RainRefLists == { << >>, <<"R1">>, <<"R1", "R2">>, <<"R2", "R1", "R1">> }

LabelTipping == <<"T", "i", "p", "p", "i", "n", "g">>

LabelTotal == <<"t", "o", "t", "a", "l">>

LabelRainfall == <<"r", "a", "i", "n", "f", "a", "l", "l">>

LabelLevel == <<"l", "e", "v", "e", "l">>

\* One item of the measures listing: its '@id' (absent, or the measure URL,
\* here a number), the station it belongs to and its label.
Measure(id, ref, label) == [id |-> id, stationReference |-> ref, label |-> label]

MeasureLists ==
    { << >>,
      << Measure(Some(1), "R1", LabelRainfall), Measure(Some(2), "R1", LabelTipping),
         Measure(Some(3), "R2", LabelTotal) >>,
      << Measure(Some(1), "R2", LabelLevel), Measure(Some(2), "R1", LabelTotal),
         Measure(Some(3), "R1", LabelTotal) >>,
      << Measure(Null, "R1", LabelTipping), Measure(Some(2), "R2", LabelRainfall),
         Measure(Some(3), "R3", LabelTipping) >> }

MeasuresResponses == {[status |-> "ok", items |-> l] : l \in MeasureLists} \cup Failures

\* target_refs: the distinct non-empty references asked for.
TargetRefs(refs) == {refs[i] : i \in {k \in DOMAIN refs : refs[k] # ""}}

\* The priority of a measure, from its lower-cased label.
MeasurePriority(label) ==
    LET l == Lower(label)
    IN  IF Contains(<<"t", "i", "p", "p", "i", "n", "g">>, l) THEN 3
        ELSE IF Contains(<<"t", "o", "t", "a", "l">>, l) THEN 2
        ELSE IF Contains(<<"r", "a", "i", "n", "f", "a", "l", "l">>, l) THEN 1
        ELSE 0

MapIndex(map, ref) == {k \in DOMAIN map : map[k].ref = ref}

\* Does a measure of priority prio replace the best one kept so far?
\* A measure that also replaces one of its own priority.
Outranks_OrEqual(prio, best) == prio >= best

Outranks(prio, best) == prio > best

\* The loop over the measures: a dict in insertion order, one entry per
\* targeted reference, replaced in place by a measure of higher priority.
RECURSIVE BuildMeasureMap(_, _, _, _)
BuildMeasureMap(items, k, targets, map) ==
    IF k > Len(items) THEN map
    ELSE LET i == items[k]
             prio == MeasurePriority(i.label)
             at == MapIndex(map, i.stationReference)
             entry == [ref |-> i.stationReference, m_id |-> i.id, prio |-> prio]
             best == IF at = {} THEN -1 ELSE map[CHOOSE x \in at : TRUE].prio
         IN  IF i.stationReference \notin targets
             THEN BuildMeasureMap(items, k + 1, targets, map)
             ELSE IF Outranks(prio, best)
                  THEN BuildMeasureMap(items, k + 1, targets,
                           IF at = {} THEN Append(map, entry)
                           ELSE [map EXCEPT ![CHOOSE x \in at : TRUE] = entry])
                  ELSE BuildMeasureMap(items, k + 1, targets, map)

\* ref_to_measure.get(ref)
RefToMeasure(map, ref) ==
    IF MapIndex(map, ref) = {} THEN Null ELSE map[CHOOSE x \in MapIndex(map, ref) : TRUE].m_id

latest_cutoff(t) == t - LAG_DAYS

mid_cutoff(t, w) == t - (LAG_DAYS + w)

hist_cutoff(t, w) == t - (LAG_DAYS + 2 * w)

ReadingTimes(t) == (t - 12)..(t - 6)

\* One reading: a depth in hundredths of a millimetre and the day it was taken.
ReadingItems(t) == [value : {100, 200}, dateTime : ReadingTimes(t)]

\* Windows that include their upper cutoff.
RECURSIVE SumInWindow_ClosedAbove(_, _, _)
SumInWindow_ClosedAbove(items, lo, hi) ==
    IF items = << >> THEN 0
    ELSE (IF lo <= Head(items).dateTime /\ Head(items).dateTime <= hi
          THEN Head(items).value ELSE 0) + SumInWindow_ClosedAbove(Tail(items), lo, hi)

RECURSIVE SumInWindow(_, _, _)
SumInWindow(items, lo, hi) ==
    IF items = << >> THEN 0
    ELSE (IF lo <= Head(items).dateTime /\ Head(items).dateTime < hi
          THEN Head(items).value ELSE 0) + SumInWindow(Tail(items), lo, hi)

Accumulated(ref, latest, hist) ==
    [rain_ref |-> ref, rain_latest_val |-> latest, rain_hist_val |-> hist]

\* What a worker returns when its readings request does not answer 200.
OnApiError(res) == Some(res)

\* _fetch_accumulated: None or the sums of one station.
FetchAccumulatedResult(ref, map, resp, t, w) ==
    IF IsNull(RefToMeasure(map, ref)) THEN Null
    ELSE IF resp.status = "raise" THEN Null
    ELSE IF resp.status = "ok"
         THEN Some(Accumulated(ref,
                  SumInWindow(resp.items, mid_cutoff(t, w), latest_cutoff(t)),
                  SumInWindow(resp.items, hist_cutoff(t, w), mid_cutoff(t, w))))
    ELSE OnApiError(Accumulated(ref, 0, 0))

MapKeys(map) == [k \in DOMAIN map |-> map[k].ref]

\* A pool that gives nothing as soon as one worker returned None.
NonNone_AllOrNothing(keys, done) ==
    IF \E k \in DOMAIN keys : IsNull(done[keys[k]]) THEN << >>
    ELSE [k \in DOMAIN keys |-> done[keys[k]][1]]

RECURSIVE NonNone(_, _)
NonNone(keys, done) ==
    IF keys = << >> THEN << >>
    ELSE (IF IsNull(done[Head(keys)]) THEN << >> ELSE <<done[Head(keys)][1]>>)
         \o NonNone(Tail(keys), done)

EmptyFrame == [status |-> "empty", rows |-> << >>]

Frame(rows) == IF rows = << >> THEN EmptyFrame ELSE [status |-> "ok", rows |-> rows]

ServedReadings(resps) ==
    LET RECURSIVE Total(_)
        Total(S) == IF S = {} THEN 0
                    ELSE LET r == CHOOSE x \in S : TRUE
                         IN  Len(resps[r].items) + Total(S \ {r})
    IN  Total(DOMAIN resps)

InitRain ==
    /\ CacheIdle /\ ScaleIdle
    /\ MetaIdle /\ TrendIdle /\ LinkIdle /\ ResearchIdle
    /\ pc = "rain_start"
    /\ now \in NowChoices
    /\ window_days \in RainWindowChoices
    /\ rain_refs \in RainRefLists
    /\ measuresResp \in MeasuresResponses
    /\ measure_map = << >>
    /\ readingsResp = EmptyMap
    /\ running = {}
    /\ combined = EmptyMap
    /\ rain_result = NoTable

\* From the entry of fetch_rainfall_readings to the start of the worker pool.
ResolveMeasures ==
    /\ UNCHANGED <<cacheVars, scaleVars>>
    /\ pc = "rain_start"
    /\ IF rain_refs = << >> \/ measuresResp.status # "ok"
       THEN /\ rain_result' = EmptyFrame
            /\ pc' = "rain_done"
            /\ UNCHANGED measure_map
       ELSE /\ measure_map' = BuildMeasureMap(measuresResp.items, 1, TargetRefs(rain_refs), << >>)
            /\ pc' = "rain_workers"
            /\ UNCHANGED rain_result
    /\ UNCHANGED <<rain_refs, measuresResp, readingsResp, running, combined>>
    /\ UNCHANGED <<commonVars, metaVars, trendVars, linkVars, researchVars>>

\* A worker that adds its sums to those of the workers that finished before
\* it, as if the pool shared one accumulator.
WorkerReturns_SharedAccumulator(ref, answers) ==
    \E resp \in answers :
        LET own == FetchAccumulatedResult(ref, measure_map, resp, now, window_days)
            others == {r \in DOMAIN combined : ~IsNull(combined[r])}
            last == CHOOSE r \in others : TRUE
        IN  /\ readingsResp' = IF IsNull(RefToMeasure(measure_map, ref)) THEN readingsResp
                               ELSE readingsResp @@ (ref :> resp)
            /\ combined' = combined @@
                   (ref :> IF IsNull(own) \/ others = {} THEN own
                           ELSE Some(Accumulated(ref,
                                    own[1].rain_latest_val + combined[last][1].rain_latest_val,
                                    own[1].rain_hist_val + combined[last][1].rain_hist_val)))

\* _fetch_accumulated(ref) returns: its readings request ended in one of the
\* ways `answers`, and its result takes its place in `combined`.
WorkerReturns(ref, answers) ==
    \E resp \in answers :
        /\ readingsResp' = IF IsNull(RefToMeasure(measure_map, ref)) THEN readingsResp
                           ELSE readingsResp @@ (ref :> resp)
        /\ combined' = combined @@
               (ref :> FetchAccumulatedResult(ref, measure_map, resp, now, window_days))

\* One worker of the pool runs _fetch_accumulated for its reference.
FetchAccumulated(ref) ==
    /\ UNCHANGED <<cacheVars, scaleVars>>
    /\ pc = "rain_workers"
    /\ ref \in Range(MapKeys(measure_map))
    /\ ref \notin DOMAIN combined
    /\ WorkerReturns(ref, Responses(ReadingItems(now),
                                    MaxReadings - ServedReadings(readingsResp)))
    /\ UNCHANGED <<pc, rain_refs, measuresResp, measure_map, running, rain_result>>
    /\ UNCHANGED <<commonVars, metaVars, trendVars, linkVars, researchVars>>

\* The pool is drained: the results that are not None become the table.
CollectResults ==
    /\ UNCHANGED <<cacheVars, scaleVars>>
    /\ pc = "rain_workers"
    /\ Range(MapKeys(measure_map)) = DOMAIN combined
    /\ rain_result' = Frame(NonNone(MapKeys(measure_map), combined))
    /\ pc' = "rain_done"
    /\ UNCHANGED <<rain_refs, measuresResp, measure_map, readingsResp, running, combined>>
    /\ UNCHANGED <<commonVars, metaVars, trendVars, linkVars, researchVars>>

NextRain ==
    \/ ResolveMeasures
    \/ \E ref \in {"R1", "R2"} : FetchAccumulated(ref)
    \/ CollectResults

SpecRain == InitRain /\ [][NextRain]_vars

\* The width of the pool.  The code has max_workers=30; the pool is modelled
\* with two threads, so that a call for three stations has more tasks than
\* threads, as a call for more than 30 stations has.
max_workers == 2

PoolRefLists == { <<"R1">>, <<"R2", "R1">>, <<"R1", "R2", "R3">> }

\* How the readings request of a task ends: a 200 without readings or with
\* one reading of the latest window, another status, or a timeout.
PoolAnswers ==
    { [status |-> "ok", items |-> << >>],
      [status |-> "ok", items |-> << [value |-> 100, dateTime |-> now - LAG_DAYS - 1] >>] }
    \cup Failures

\* The tasks of executor.map, in the order of the keys of ref_to_measure.
PoolTasks == MapKeys(measure_map)

\* The tasks no thread has taken yet.
Waiting == {k \in DOMAIN PoolTasks : PoolTasks[k] \notin running \cup DOMAIN combined}

InitRainPool ==
    /\ CacheIdle /\ ScaleIdle
    /\ MetaIdle /\ TrendIdle /\ LinkIdle /\ ResearchIdle
    /\ pc = "rain_start"
    /\ now \in NowChoices
    /\ window_days \in RainWindowChoices
    /\ rain_refs \in PoolRefLists
    /\ measuresResp \in MeasuresResponses
    /\ measure_map = << >>
    /\ readingsResp = EmptyMap
    /\ running = {}
    /\ combined = EmptyMap
    /\ rain_result = NoTable

\* A thread that does not go back to the pool when its task is done.
ReleaseThread_Never(ref) == running

\* The thread of a finished task takes the next task or goes idle.
ReleaseThread(ref) == running \ {ref}

\* A free thread of the pool takes the first task that waits.
StartFetch ==
    /\ UNCHANGED <<cacheVars, scaleVars>>
    /\ pc = "rain_workers"
    /\ Cardinality(running) < max_workers
    /\ Waiting # {}
    /\ running' = running \cup {PoolTasks[Min(Waiting)]}
    /\ UNCHANGED <<pc, rain_refs, measuresResp, measure_map, readingsResp, combined,
                   rain_result>>
    /\ UNCHANGED <<commonVars, metaVars, trendVars, linkVars, researchVars>>

\* The task of a thread ends: its request returned, or it raised or timed
\* out (timeout=12), and _fetch_accumulated returned.
CompleteFetch(ref) ==
    /\ UNCHANGED <<cacheVars, scaleVars>>
    /\ pc = "rain_workers"
    /\ ref \in running
    /\ ref \notin DOMAIN combined
    /\ WorkerReturns(ref, PoolAnswers)
    /\ running' = ReleaseThread(ref)
    /\ UNCHANGED <<pc, rain_refs, measuresResp, measure_map, rain_result>>
    /\ UNCHANGED <<commonVars, metaVars, trendVars, linkVars, researchVars>>

NextRainPool ==
    \/ ResolveMeasures
    \/ StartFetch
    \/ \E ref \in {"R1", "R2", "R3"} : CompleteFetch(ref)
    \/ CollectResults

\* Every request returns or times out, and a thread that can run does run.
SpecRainPool == InitRainPool /\ [][NextRainPool]_vars /\ WF_vars(NextRainPool)

RainReturned == pc = "rain_done"

RainRow(ref) == {k \in DOMAIN rain_result.rows : rain_result.rows[k].rain_ref = ref}

\* C1: a station whose readings request fails (a status other than 200, an
\* exception or a timeout) has no entry in the result of
\* fetch_rainfall_readings: it is never reported with zero sums.
C1_FailedStationOmitted ==
    RainReturned =>
        \A ref \in DOMAIN readingsResp :
            readingsResp[ref].status # "ok" => RainRow(ref) = {}

\* The sum of the values of the readings at the positions S.
RECURSIVE C11_Total(_, _)
C11_Total(items, S) ==
    IF S = {} THEN 0
    ELSE LET k == CHOOSE x \in S : TRUE
         IN  items[k].value + C11_Total(items, S \ {k})

\* The stations whose readings request answered 200.
Summed == {ref \in DOMAIN readingsResp : readingsResp[ref].status = "ok"}

\* C11: with L = LAG_DAYS and W = window_days, a fetched reading taken at t
\* is added to the latest sum iff now - L - W <= t < now - L, to the baseline
\* sum iff now - L - 2W <= t < now - L - W, and to neither otherwise: a
\* reading of [now - L - 2W, now - L) is counted once, the boundaries
\* included, and a reading inside the lag or older than the baseline window
\* is counted in no sum.
C11_BucketsPartitionTheWindow ==
    \A ref \in Summed :
        LET items == readingsResp[ref].items
            inLatest == {k \in DOMAIN items :
                            /\ now - LAG_DAYS - window_days <= items[k].dateTime
                            /\ items[k].dateTime < now - LAG_DAYS}
            inBaseline == {k \in DOMAIN items :
                            /\ now - LAG_DAYS - 2 * window_days <= items[k].dateTime
                            /\ items[k].dateTime < now - LAG_DAYS - window_days}
            inWindow == {k \in DOMAIN items :
                            /\ now - LAG_DAYS - 2 * window_days <= items[k].dateTime
                            /\ items[k].dateTime < now - LAG_DAYS}
        IN  /\ ref \in DOMAIN combined
            /\ ~IsNull(combined[ref])
            /\ combined[ref][1].rain_latest_val = C11_Total(items, inLatest)
            /\ combined[ref][1].rain_hist_val = C11_Total(items, inBaseline)
            /\ combined[ref][1].rain_latest_val + combined[ref][1].rain_hist_val
                   = C11_Total(items, inWindow)
            /\ pc = "rain_done" =>
                   \E k \in DOMAIN rain_result.rows : rain_result.rows[k] = combined[ref][1]

\* C11's case: one reading exactly on the boundary between the two windows,
\* counted in the latest sum only, and one exactly at the end of the lag,
\* counted in none.
C11_Witness ==
    /\ pc = "rain_done"
    /\ \E ref \in Summed :
           LET items == readingsResp[ref].items
           IN  /\ Len(items) = 2
               /\ items[1].dateTime = now - LAG_DAYS - window_days
               /\ items[2].dateTime = now - LAG_DAYS
               /\ combined[ref][1].rain_latest_val = items[1].value
               /\ combined[ref][1].rain_hist_val = 0
               /\ RainRow(ref) # {}

\* The stations whose readings request raised or timed out.
Raised == {ref \in DOMAIN readingsResp : readingsResp[ref].status = "raise"}

\* C12: when the fetch of one station raises or times out, the batch still
\* returns, and it holds the row of every other station whose fetch
\* succeeded, with that station's own sums; the failing station neither
\* empties nor aborts the batch.
C12_FailureIsolatedPerStation ==
    (RainReturned /\ Raised # {}) =>
        /\ \A ref \in Raised : RainRow(ref) = {}
        /\ \A ref \in Summed :
               LET items == readingsResp[ref].items
                   latest == {k \in DOMAIN items :
                                 /\ now - LAG_DAYS - window_days <= items[k].dateTime
                                 /\ items[k].dateTime < now - LAG_DAYS}
                   baseline == {k \in DOMAIN items :
                                 /\ now - LAG_DAYS - 2 * window_days <= items[k].dateTime
                                 /\ items[k].dateTime < now - LAG_DAYS - window_days}
               IN  /\ Cardinality(RainRow(ref)) = 1
                   /\ \A k \in RainRow(ref) :
                          /\ rain_result.rows[k].rain_latest_val = C11_Total(items, latest)
                          /\ rain_result.rows[k].rain_hist_val = C11_Total(items, baseline)
        /\ Summed # {} => rain_result.status = "ok"

\* C12's case: of two dispatched stations one raises and the other answers
\* with a reading of the latest window; the batch returns the second alone.
C12_Witness ==
    /\ RainReturned
    /\ \E bad \in Raised, good \in Summed :
           /\ readingsResp[good].items # << >>
           /\ Len(rain_result.rows) = 1
           /\ rain_result.rows[1].rain_ref = good
           /\ rain_result.rows[1].rain_latest_val > 0

\* The measures of the listing that belong to station ref, by position.
MeasuresOf(ref) ==
    {k \in DOMAIN measuresResp.items : measuresResp.items[k].stationReference = ref}

\* The rank the priority rule gives a label: tipping, then total, then
\* rainfall, then anything else.
C20_Rank(label) ==
    IF Contains(<<"t", "i", "p", "p", "i", "n", "g">>, Lower(label)) THEN 3
    ELSE IF Contains(<<"t", "o", "t", "a", "l">>, Lower(label)) THEN 2
    ELSE IF Contains(<<"r", "a", "i", "n", "f", "a", "l", "l">>, Lower(label)) THEN 1
    ELSE 0

\* C20: for each requested station reference, fetch_rainfall_readings
\* resolves the measure of the highest priority among the station's
\* measures (tipping over total over rainfall over any other label), and
\* among measures of equal priority the first one listed.  Stated of the
\* measure map the worker pool starts with; no worker writes to it.
C20_BestMeasurePerStation ==
    (pc = "rain_workers" /\ combined = EmptyMap) =>
        /\ \A k \in DOMAIN measure_map : measure_map[k].ref \in TargetRefs(rain_refs)
        /\ \A ref \in TargetRefs(rain_refs) :
               IF MeasuresOf(ref) = {}
               THEN MapIndex(measure_map, ref) = {}
               ELSE LET best == CHOOSE k \in MeasuresOf(ref) :
                                    \A l \in MeasuresOf(ref) :
                                        \/ C20_Rank(measuresResp.items[k].label)
                                               > C20_Rank(measuresResp.items[l].label)
                                        \/ /\ C20_Rank(measuresResp.items[k].label)
                                                  = C20_Rank(measuresResp.items[l].label)
                                           /\ k <= l
                    IN  /\ Cardinality(MapIndex(measure_map, ref)) = 1
                        /\ RefToMeasure(measure_map, ref) = measuresResp.items[best].id

\* C20's case: a station listed with a rainfall measure and then a tipping
\* bucket measure resolves to the second.
C20_Witness ==
    /\ pc = "rain_workers"
    /\ combined = EmptyMap
    /\ measuresResp.status = "ok"
    /\ Len(measuresResp.items) = 3
    /\ MeasuresOf("R1") = {1, 2}
    /\ C20_Rank(measuresResp.items[1].label) = 1
    /\ C20_Rank(measuresResp.items[2].label) = 3
    /\ RefToMeasure(measure_map, "R1") = measuresResp.items[2].id

\* What the answer to a station's own readings request determines for it:
\* nothing when the station has no measure URL or its request raised, zero
\* sums for a status other than 200, else the sums of its own readings.
C26_OwnResult(ref) ==
    IF ref \notin DOMAIN readingsResp \/ readingsResp[ref].status = "raise" THEN Null
    ELSE IF readingsResp[ref].status # "ok" THEN Some(Accumulated(ref, 0, 0))
    ELSE LET items == readingsResp[ref].items
             latest == {k \in DOMAIN items :
                           /\ now - LAG_DAYS - window_days <= items[k].dateTime
                           /\ items[k].dateTime < now - LAG_DAYS}
             baseline == {k \in DOMAIN items :
                           /\ now - LAG_DAYS - 2 * window_days <= items[k].dateTime
                           /\ items[k].dateTime < now - LAG_DAYS - window_days}
         IN  Some(Accumulated(ref, C11_Total(items, latest), C11_Total(items, baseline)))

\* C26: the result of fetch_rainfall_readings for given provider responses
\* is the same under every interleaving and completion order of the worker
\* threads: it has at most one entry per distinct requested reference, and
\* each entry's sums depend only on that station's own readings; no worker
\* writes state that another worker reads.
C26_ResultIndependentOfWorkerOrder ==
    /\ \A ref \in DOMAIN combined : combined[ref] = C26_OwnResult(ref)
    /\ (RainReturned /\ rain_result.status = "ok") =>
           /\ \A k \in DOMAIN rain_result.rows :
                  LET ref == rain_result.rows[k].rain_ref
                  IN  /\ ref \in TargetRefs(rain_refs)
                      /\ RainRow(ref) = {k}
                      /\ Some(rain_result.rows[k]) = C26_OwnResult(ref)
           /\ \A ref \in DOMAIN combined :
                  ~IsNull(C26_OwnResult(ref)) => RainRow(ref) # {}
           /\ \A j, k \in DOMAIN rain_result.rows :
                  j < k =>
                      \A a \in MapIndex(measure_map, rain_result.rows[j].rain_ref),
                         b \in MapIndex(measure_map, rain_result.rows[k].rain_ref) : a < b
    /\ (RainReturned /\ rain_result.status # "ok") =>
           \A ref \in DOMAIN combined : IsNull(C26_OwnResult(ref))

\* C26's case: two stations each answer with one reading of its own, in
\* different windows; whichever worker finished first, the table has the two
\* rows in the order of the measure map, each with its own station's sums.
C26_Witness ==
    /\ RainReturned
    /\ DOMAIN readingsResp = {"R1", "R2"}
    /\ Len(readingsResp["R1"].items) = 1
    /\ Len(readingsResp["R2"].items) = 1
    /\ Len(rain_result.rows) = 2
    /\ \E k \in RainRow("R1") :
           /\ rain_result.rows[k].rain_latest_val = readingsResp["R1"].items[1].value
           /\ rain_result.rows[k].rain_hist_val = 0
    /\ \E k \in RainRow("R2") :
           /\ rain_result.rows[k].rain_latest_val = 0
           /\ rain_result.rows[k].rain_hist_val = readingsResp["R2"].items[1].value

\* The call has returned, every task of the pool has ended as a result or as
\* a failure, and a station whose request raised or timed out has no row.
C27_BatchDone ==
    /\ pc = "rain_done"
    /\ running = {}
    /\ Range(PoolTasks) = DOMAIN combined
    /\ \A ref \in Raised : IsNull(combined[ref]) /\ RainRow(ref) = {}

\* C27: provided every HTTP request either returns or times out,
\* fetch_rainfall_readings eventually returns for any number of station
\* references, more references than the pool has threads included: every
\* dispatched per-station fetch completes as a result or a failure, and a
\* timed-out unit is treated as failed without keeping the batch from
\* completing.
C27_BatchEventuallyReturns == <>[]C27_BatchDone

\* C27's case: three tasks for a pool of two threads, the request of one of
\* them times out, and the call has returned the row of another.
C27_Witness ==
    /\ C27_BatchDone
    /\ Len(PoolTasks) > max_workers
    /\ Raised # {}
    /\ rain_result.status = "ok"

---------------------------------------------------------------------------
(* The research table: get_station_specific_et, fetch_research_data *)

\* Depths are in hundredths of a millimetre; KC_FACTOR is in tenths.
KC_FACTOR == 5

RAIN_COEFF == 1

ResearchGwPositions == {0, 9}

\* float('nan'): a value that is present, is truthy, and equals no text.
NaN == "nan"

\* The ground truth of a row: a label, None (also what row.get gives without
\* the column), or NaN.
ResearchTrendLabels == {Some("Rising"), Some("Falling"), Null, Some(NaN)}

\* What fetch_rainfall_metadata returns to fetch_research_data.
ResearchRainTables ==
    { RainTable(<< >>), RainTable(<<1>>), RainTable(<<1, 8>>) }

\* The accumulated depths a gauge can be reported with.
RainSums == {0, 100, 800, 1200}

\* The PET table of the call: is the csv file there, does reading it or the
\* lookup in it raise, and the avg_daily_pet of the station's entry for the
\* month when it has one.
PetEnvs ==
    { [file |-> FALSE, raises |-> FALSE, avg_daily_pet |-> Null],
      [file |-> TRUE, raises |-> TRUE, avg_daily_pet |-> Null],
      [file |-> TRUE, raises |-> FALSE, avg_daily_pet |-> Null],
      [file |-> TRUE, raises |-> FALSE, avg_daily_pet |-> Some(500)] }

\* get_station_specific_et: 45.0 without the file, the entry's daily average
\* times Kc times 30 with one; 45.0 * Kc when the table has no entry and
\* after the handler of a lookup that raised.
GetStationSpecificEt(pet) ==
    IF ~pet.file THEN 4500
    ELSE IF ~pet.raises /\ ~IsNull(pet.avg_daily_pet)
         THEN (pet.avg_daily_pet[1] * KC_FACTOR * 30) \div 10
    ELSE (4500 * KC_FACTOR) \div 10

\* (et_total / 30.0) * window_days
EtScaled(pet, w) == (GetStationSpecificEt(pet) * w) \div 30

\* The lesser of the two, where the code takes the greater.
Max_Lesser(a, b) == IF a <= b THEN a ELSE b

Max(a, b) == IF a >= b THEN a ELSE b

\* A recharge that is not floored at zero.
Reff_Unfloored(rain, et) == rain * RAIN_COEFF - et

\* Reff = max(0, rain * coeff - AET)
Reff(rain, et) == Max(0, rain * RAIN_COEFF - et)

\* _calc_recharge_proxy: the pair (proxy_trend, reff_val)
CalcRechargeProxy(lv, hv, pet, w) ==
    IF IsNull(lv) \/ IsNull(hv) THEN [trend |-> "N/A", reff |-> Null]
    ELSE LET reff_latest == Reff(lv[1], EtScaled(pet, w))
             reff_hist == Reff(hv[1], EtScaled(pet, w))
         IN  IF reff_latest > reff_hist THEN [trend |-> "Rising", reff |-> Some(reff_latest)]
             ELSE IF reff_latest < reff_hist
                  THEN [trend |-> "Falling", reff |-> Some(reff_latest)]
             ELSE [trend |-> "Stable", reff |-> Some(reff_latest)]

\* _check_accuracy: `not at` is true of None and false of a NaN.
CheckAccuracy(pt, at) ==
    IF pt = "N/A" \/ IsNull(at) THEN "N/A"
    ELSE IF pt = at[1] THEN "Correct" ELSE "Incorrect"

\* res: the copy of gw_df with the default of each missing column.
WithDefaults(gw) ==
    [stationReference |-> gw.stationReference, latitude |-> gw.latitude,
     trend_label |-> gw.trend_label,
     proxy_trend |-> "N/A", proxy_match |-> "N/A", rain_ref |-> Null,
     rain_dist_km |-> Null, reff_val |-> Null, et_applied |-> Null]

\* linked['rain_ref'].dropna().unique().tolist()
RECURSIVE ActiveRainRefs(_)
ActiveRainRefs(rows) ==
    IF rows = << >> THEN << >>
    ELSE LET rest == ActiveRainRefs(SubSeq(rows, 1, Len(rows) - 1))
             last == rows[Len(rows)].rain_ref
         IN  IF IsNull(last) \/ last[1] \in Range(rest) THEN rest ELSE Append(rest, last[1])

\* The tables fetch_rainfall_readings can return for these references: no
\* table, or one row for each reference of a subset of them.
RainfallOutcomes(refs) ==
    { Frame(NonNone(refs,
                    [r \in Range(refs) |->
                        IF IsNull(sums[r]) THEN Null
                        ELSE Some(Accumulated(r, sums[r][1].latest, sums[r][1].hist))])) :
        sums \in [Range(refs) -> {Null} \cup {Some(p) : p \in [latest : RainSums, hist : RainSums]}] }

ReadingsOf(readings, ref) ==
    {k \in DOMAIN readings.rows : Some(readings.rows[k].rain_ref) = ref}

\* pd.merge(linked, rain_readings, on='rain_ref', how='left') and the model
\* applied to the merged row.
Calibrated(row, readings, pet, w) ==
    LET at == ReadingsOf(readings, row.rain_ref)
        lv == IF at = {} THEN Null ELSE Some(readings.rows[CHOOSE k \in at : TRUE].rain_latest_val)
        hv == IF at = {} THEN Null ELSE Some(readings.rows[CHOOSE k \in at : TRUE].rain_hist_val)
        proxy == CalcRechargeProxy(lv, hv, pet, w)
    IN  [stationReference |-> row.stationReference, latitude |-> row.latitude,
         trend_label |-> row.trend_label,
         rain_ref |-> row.rain_ref, rain_dist_km |-> row.rain_dist_km,
         rain_latest_val |-> lv, rain_hist_val |-> hv,
         proxy_trend |-> proxy.trend, reff_val |-> proxy.reff,
         et_applied |-> Some(EtScaled(pet, w)),
         proxy_match |-> CheckAccuracy(proxy.trend, row.trend_label)]

\* fetch_research_data, given what the link and the rainfall fetch returned.
FetchResearchData(gw, lk, readings, pet, w) ==
    IF gw = << >> THEN gw
    ELSE IF ~lk.cols THEN [i \in DOMAIN gw |-> WithDefaults(gw[i])]
    ELSE IF ActiveRainRefs(lk.rows) = << >> THEN lk.rows
    ELSE IF readings.status = "empty" THEN lk.rows
    ELSE [i \in DOMAIN lk.rows |-> Calibrated(lk.rows[i], readings, pet, w)]

InitResearch ==
    /\ CacheIdle /\ ScaleIdle
    /\ MetaIdle /\ TrendIdle /\ RainIdle
    /\ pc = "research_start"
    /\ now \in NowChoices
    /\ window_days \in RainWindowChoices
    /\ gw_df \in {GwTable(c) :
                    c \in SeqsUpTo([latitude : ResearchGwPositions,
                                    trend_label : ResearchTrendLabels], MaxGw)}
    /\ rain_df \in ResearchRainTables
    /\ max_dist_km = DEFAULT_MAX_DIST_KM
    /\ petEnv \in PetEnvs
    /\ linked = NoTable
    /\ wider_km = 0
    /\ relinked = NoTable
    /\ rain_readings = NoTable
    /\ research = NoTable

\* One call of fetch_research_data; the rainfall fetch is made only when the
\* link gave at least one reference.
CallFetchResearchData ==
    /\ UNCHANGED <<cacheVars, scaleVars>>
    /\ pc = "research_start"
    /\ LET lk == LinkStationsGeospatially(gw_df, rain_df, max_dist_km)
           fetched == gw_df # << >> /\ lk.cols /\ ActiveRainRefs(lk.rows) # << >>
       IN  /\ linked' = IF gw_df = << >> THEN linked ELSE lk
           /\ \E readings \in IF fetched THEN RainfallOutcomes(ActiveRainRefs(lk.rows))
                              ELSE {rain_readings} :
                  /\ rain_readings' = readings
                  /\ research' = [status |-> "ok",
                                  rows |-> FetchResearchData(gw_df, lk, readings,
                                                             petEnv, window_days)]
    /\ pc' = "research_done"
    /\ UNCHANGED <<gw_df, rain_df, max_dist_km, wider_km, relinked, petEnv>>
    /\ UNCHANGED <<commonVars, metaVars, trendVars, rainVars>>

NextResearch == CallFetchResearchData

SpecResearch == InitResearch /\ [][NextResearch]_vars

ResearchReturned == pc = "research_done"

\* The station of row i has no rainfall data: no gauge within the radius, or
\* a linked gauge that the rainfall fetch returned nothing for.
NoRainfallData(i) ==
    \/ ~HasLink(gw_df[i], rain_df, max_dist_km)
    \/ rain_readings.status # "ok"
    \/ ReadingsOf(rain_readings, linked.rows[i].rain_ref) = {}

\* C2: for a non-empty groundwater table, every row fetch_research_data
\* returns carries proxy_trend and proxy_match, and a station without a
\* rainfall link, or whose linked gauge has no rainfall data (the whole
\* rainfall fetch returning nothing included), has both equal to "N/A" and a
\* null recharge estimate, on every return path.
C2_ProxyFieldsOnEveryPath ==
    (ResearchReturned /\ gw_df # << >>) =>
        /\ Len(research.rows) = Len(gw_df)
        /\ \A i \in DOMAIN research.rows :
               LET row == research.rows[i]
               IN  /\ {"proxy_trend", "proxy_match"} \subseteq DOMAIN row
                   /\ NoRainfallData(i) =>
                          /\ row.proxy_trend = "N/A"
                          /\ row.proxy_match = "N/A"
                          /\ "reff_val" \in DOMAIN row
                          /\ IsNull(row.reff_val)

\* The rows of the research table the recharge model was applied to: the
\* rainfall fetch returned a table and the row has a linked gauge.
ModelledRows ==
    IF ResearchReturned /\ rain_readings.status = "ok"
    THEN {i \in DOMAIN research.rows : ~IsNull(research.rows[i].rain_ref)}
    ELSE {}

\* The row of the rainfall table of the gauge linked to row i, if any.
SumsOf(i) == ReadingsOf(rain_readings, research.rows[i].rain_ref)

ScoredRows ==
    IF ResearchReturned
    THEN {i \in DOMAIN research.rows :
             {"proxy_trend", "proxy_match"} \subseteq DOMAIN research.rows[i]}
    ELSE {}

\* pd.isna of a ground-truth label: None or NaN.
C14_Undetermined(at) == IsNull(at) \/ at = Some(NaN)

C22_RechargeNeverNegative ==
    \A i \in ModelledRows :
        LET row == research.rows[i]
            et == EtScaled(petEnv, window_days)
        IN  /\ IsNull(row.reff_val) \/ row.reff_val[1] >= 0
            /\ \A k \in SumsOf(i) :
                   /\ Reff(rain_readings.rows[k].rain_latest_val, et) >= 0
                   /\ Reff(rain_readings.rows[k].rain_hist_val, et) >= 0
                   /\ ~IsNull(row.reff_val)

\* C22's case: 1.0 mm of rain in the latest window against 2.5 mm of
\* evapotranspiration; the recharge reported is 0, not -1.5.
C22_Witness ==
    \E i \in ModelledRows :
        /\ research.rows[i].rain_latest_val = Some(100)
        /\ research.rows[i].rain_hist_val = Some(0)
        /\ research.rows[i].et_applied = Some(250)
        /\ research.rows[i].reff_val = Some(0)

\* The rows of the research table that carry the evapotranspiration applied.
RowsWithEt ==
    IF ResearchReturned
    THEN {i \in DOMAIN research.rows : "et_applied" \in DOMAIN research.rows[i]
                                       /\ ~IsNull(research.rows[i].et_applied)}
    ELSE {}

\* No station-specific entry was found for the call, for whatever reason.
C28_NoEntry(pet) == ~pet.file \/ pet.raises \/ IsNull(pet.avg_daily_pet)

\* C28: whenever no station-specific evapotranspiration entry exists for a
\* (station, month) pair, get_station_specific_et returns one and the same
\* national fallback constant, whatever the reason the entry is missing (no
\* table file, station or month not in the table, lookup error), and the
\* evapotranspiration applied for the window is that monthly figure / 30 x
\* window_days.
C28_OneNationalFallback ==
    \A i \in RowsWithEt :
        /\ research.rows[i].et_applied[1] * 30
               = GetStationSpecificEt(petEnv) * window_days
        /\ C28_NoEntry(petEnv) =>
               \A other \in PetEnvs :
                   C28_NoEntry(other) =>
                       research.rows[i].et_applied[1] * 30
                           = GetStationSpecificEt(other) * window_days

---------------------------------------------------------------------------
(* The dashboard session: st.cache_data on the fetchers (fetchers.py,      *)
(* processing.py) and the script of app.py with its session entries.       *)
(*                                                                         *)
(* A result is 1 when the provider answered with data and 0 when the call  *)
(* gave the empty result; an entry of the cache remembers, beside the      *)
(* value and the time it was stored, whether the request behind it failed. *)

DEFAULT_CACHE_TTL_METADATA == 86400

DEFAULT_CACHE_TTL_READINGS == 600

\* The moments at which the session is observed: now, ten minutes later, a
\* day later, and ten minutes after that.
ClockTimes == {0, 1, 144, 145}

Seconds(steps) == steps * 600

\* A day has 144 steps of ten minutes; the clock starts at a midnight (UTC).
StepsPerDay == 144

\* datetime.utcnow() as a calendar date, counted in days.
UtcDate(t) == t \div StepsPerDay

\* The comparison windows of the slider that the session uses.
CacheWindows == {0, 1}

Outcomes == {"ok", "non200", "raise"}

Key(fn, arg) == [fn |-> fn, arg |-> arg]

\* The cached calls: one memo per function and argument list.
CacheKeys ==
    { Key("fetch_raw_metadata", 0), Key("fetch_latest_readings_raw", 0) }
    \cup { Key("fetch_historical_snapshot_raw", w) : w \in CacheWindows \ {0} }
    \cup { Key("fetch_trends_data", w) : w \in CacheWindows }

\* The ttl each function is decorated with.
Ttl(fn) ==
    IF fn \in {"fetch_raw_metadata", "fetch_historical_snapshot_raw"}
    THEN DEFAULT_CACHE_TTL_METADATA
    ELSE DEFAULT_CACHE_TTL_READINGS

\* Does st.cache_data hold an entry of the call that has not expired?
Fresh(mem, key, t) ==
    /\ ~IsNull(mem[key])
    /\ Seconds(t - mem[key][1].at) < Ttl(key.fn)

\* What a fetcher returns for the way its request ends: the data, or the
\* empty result after a status other than 200 or an exception.  `day` is the
\* UTC date of the moment the request was made: the day the readings of a
\* snapshot for window_days are counted back from.
Fetched(outcome, t) ==
    [value |-> IF outcome = "ok" THEN 1 ELSE 0, failed |-> outcome # "ok", at |-> t,
     day |-> UtcDate(t)]

\* st.cache_data stores whatever the function returns.
StoreResult(mem, key, entry) == [mem EXCEPT ![key] = Some(entry)]

\* One call of a cached fetcher: the memoized entry while it is fresh, and
\* otherwise the function body, whose return value is stored.
CachedCall(mem, key, t, outcome) ==
    IF Fresh(mem, key, t)
    THEN [hit |-> TRUE, entry |-> mem[key][1], memo |-> mem]
    ELSE [hit |-> FALSE, entry |-> Fetched(outcome, t),
          memo |-> StoreResult(mem, key, Fetched(outcome, t))]

\* The baseline of fetch_trends_data: its own request for window 0, the
\* cached fetch_historical_snapshot_raw otherwise.
Baseline(mem, w, t, outcome) ==
    IF w = 0 THEN [hit |-> FALSE, entry |-> Fetched(outcome, t), memo |-> mem]
    ELSE CachedCall(mem, Key("fetch_historical_snapshot_raw", w), t, outcome)

\* The cached fetch_trends_data(merged, window_days).
CachedTrends(mem, w, t, outcome) ==
    LET key == Key("fetch_trends_data", w)
        base == Baseline(mem, w, t, outcome)
    IN  IF Fresh(mem, key, t)
        THEN [hit |-> TRUE, entry |-> mem[key][1], memo |-> mem, inner |-> {}, asked |-> {}]
        ELSE [hit |-> FALSE, entry |-> base.entry,
              memo |-> StoreResult(base.memo, key, [base.entry EXCEPT !.at = t]),
              inner |-> IF base.hit THEN {base} ELSE {},
              asked |-> IF base.hit THEN {} ELSE {"baseline"}]

\* fetch_uk_data(window_days) over the cached fetchers: the table it
\* returns, the cache after it, the data classes it served from the cache,
\* those of them that are the empty result of a failed request, the data
\* classes it asked the providers for, whether the body of fetch_trends_data
\* ran, and the day its baseline was requested on.
CachedFetchUkData(mem, w, t, om, ol, oh) ==
    LET meta == CachedCall(mem, Key("fetch_raw_metadata", 0), t, om)
        live == CachedCall(meta.memo, Key("fetch_latest_readings_raw", 0), t, ol)
        empty == meta.entry.value = 0 \/ live.entry.value = 0
        trends == CachedTrends(live.memo, w, t, oh)
        hits == {c \in {"metadata", "readings"} :
                    \/ c = "metadata" /\ meta.hit
                    \/ c = "readings" /\ live.hit}
                \cup (IF ~empty /\ (trends.hit \/ trends.inner # {}) THEN {"baseline"} ELSE {})
        failures == {c \in {"metadata", "readings"} :
                        \/ c = "metadata" /\ meta.hit /\ meta.entry.failed
                        \/ c = "readings" /\ live.hit /\ live.entry.failed}
                    \cup (IF ~empty /\ (trends.hit \/ trends.inner # {}) /\ trends.entry.failed
                          THEN {"baseline"} ELSE {})
        asked == {c \in {"metadata", "readings"} :
                     \/ c = "metadata" /\ ~meta.hit
                     \/ c = "readings" /\ ~live.hit}
                 \cup (IF empty THEN {} ELSE trends.asked)
    IN  [table |-> IF empty THEN [empty |-> TRUE, baseline |-> 0]
                   ELSE [empty |-> FALSE, baseline |-> trends.entry.value],
         memo |-> IF empty THEN live.memo ELSE trends.memo,
         cached |-> hits, cachedFailures |-> failures, requested |-> asked,
         classified |-> ~empty /\ ~trends.hit,
         baseline |-> IF empty THEN 0 ELSE trends.entry.value,
         baselineDay |-> IF empty THEN UtcDate(t) ELSE trends.entry.day]

\* clear_data_cache: the session entries whose key starts with "df_w" go.
ClearDataCache(sess) == [w \in DOMAIN sess |-> Null]

InitCache ==
    /\ ScaleIdle
    /\ CommonIdle /\ MetaIdle /\ TrendIdle /\ LinkIdle /\ ResearchIdle /\ RainIdle
    /\ pc = "session"
    /\ clock = 0
    /\ session = [w \in CacheWindows |-> Null]
    /\ memo = [k \in CacheKeys |-> Null]
    /\ lastRun = NoRun

\* Time passes between two runs of the script.
Tick ==
    /\ pc = "session"
    /\ \E t \in ClockTimes : t > clock /\ clock' = t
    /\ UNCHANGED <<pc, session, memo, lastRun>>
    /\ UNCHANGED <<commonVars, metaVars, trendVars, linkVars, researchVars, rainVars, scaleVars>>

\* One run of the script of app.py with the slider at w; with the refresh
\* button pressed the run clears the session entries and starts again.
RunScript(w, refresh) ==
    /\ pc = "session"
    /\ LET sess == IF refresh THEN ClearDataCache(session) ELSE session
       IN  IF ~IsNull(sess[w])
           THEN /\ session' = sess
                /\ lastRun' = [status |-> "ran", window |-> w, purged |-> refresh,
                               fetched |-> FALSE, cached |-> {}, cachedFailures |-> {},
                               requested |-> {}, today |-> UtcDate(clock),
                               classified |-> FALSE, baseline |-> 0,
                               baselineDay |-> UtcDate(clock)]
                /\ UNCHANGED memo
           ELSE \E om \in Outcomes, ol \in Outcomes, oh \in Outcomes :
                    LET run == CachedFetchUkData(memo, w, clock, om, ol, oh)
                    IN  /\ session' = [sess EXCEPT ![w] = Some(run.table)]
                        /\ memo' = run.memo
                        /\ lastRun' = [status |-> "ran", window |-> w, purged |-> refresh,
                                       fetched |-> TRUE, cached |-> run.cached,
                                       cachedFailures |-> run.cachedFailures,
                                       requested |-> run.requested,
                                       today |-> UtcDate(clock),
                                       classified |-> run.classified,
                                       baseline |-> run.baseline,
                                       baselineDay |-> run.baselineDay]
    /\ UNCHANGED <<pc, clock>>
    /\ UNCHANGED <<commonVars, metaVars, trendVars, linkVars, researchVars, rainVars, scaleVars>>

NextCache ==
    \/ Tick
    \/ \E w \in CacheWindows, refresh \in BOOLEAN : RunScript(w, refresh)

SpecCache == InitCache /\ [][NextCache]_vars

\* C15: a failed fetch does not poison the cache: a call of a cached fetcher
\* that follows, within the ttl, a call whose request failed makes a new
\* request; it is never served the memoized empty result of the failure.
C15_FailureNotServedFromCache ==
    lastRun.status = "ran" => lastRun.cachedFailures = {}

\* C16: after clear_data_cache the next data access fetches every data class
\* from the providers again: nothing memoized before the purge, session
\* entry or cached fetcher result, is served after it.
C16_PurgeRefetchesEverything ==
    (lastRun.status = "ran" /\ lastRun.purged) =>
        /\ lastRun.fetched
        /\ lastRun.cached = {}

\* C29: whenever the trend classifier is run with window_days = W >= 1, the
\* baseline snapshot it compares against is the readings of the calendar
\* date (current UTC date - W days) at the time of that run, for every
\* sequence of earlier runs and cache hits: a snapshot memoized for W on an
\* earlier date is never used as the baseline after the date has changed.
C29_BaselineOfTheCurrentDate ==
    (/\ lastRun.status = "ran"
     /\ lastRun.classified
     /\ lastRun.window >= 1
     /\ lastRun.baseline = 1) =>
        lastRun.baselineDay - lastRun.window = lastRun.today - lastRun.window

---------------------------------------------------------------------------
(* The station scale: fetch_station_scale (fetchers.py)                    *)
(*                                                                         *)
(* Levels are in thousandths of the station's unit and the factor in       *)
(* thousandths, as for the live readings.                                  *)

ScaleUrls == {"", "http://host/id/stations/E1/stageScale"}

ScaleFactors == {1, 10, 1000}

\* A record level of the endpoint: the key is absent, or holds an object
\* with a value, or holds something that is not an object.
ScaleMarks ==
    { [kind |-> "absent", value |-> 0], [kind |-> "object", value |-> 12000],
      [kind |-> "object", value |-> 9000], [kind |-> "text", value |-> 0] }

\* The 'items' of the endpoint: an object with the four keys (a typical range
\* may be absent), or, malformed, a list.
ScaleItems ==
    [form : {"object"}, maxOnRecord : ScaleMarks, minOnRecord : ScaleMarks,
     typicalRangeHigh : {Null, Some(11000)}, typicalRangeLow : {Null, Some(10000)}]
    \cup [form : {"list"}, maxOnRecord : {[kind |-> "absent", value |-> 0]},
          minOnRecord : {[kind |-> "absent", value |-> 0]},
          typicalRangeHigh : {Null}, typicalRangeLow : {Null}]

ScaleResponses == {[status |-> "raise"]} \cup {[status |-> "ok", items |-> i] : i \in ScaleItems}

\* The names bound in the body of fetch_station_scale and in its module.
LocalNames == {"url", "conversion_factor", "safe_url", "d", "_p", "e"}

ModuleNames ==
    {"pd", "requests", "st", "logging", "datetime", "timedelta", "Optional", "Dict",
     "Any", "List", "config", "logger", "fetch_raw_metadata", "fetch_latest_readings_raw",
     "fetch_historical_snapshot_raw", "fetch_station_scale", "fetch_station_history"}

\* Reading a name that is bound nowhere raises NameError.
RaisesNameError(name) == name \notin LocalNames \cup ModuleNames

\* The name the two typical ranges are multiplied by.
RangeFactorName == "conv_factor"

\* {} : what the function returns for no URL and from its handler.
EmptyScale == [status |-> "empty"]

\* _p(k): the record level times conversion_factor; a missing key counts as
\* an object without a value (0), what is not an object gives None.
ScaleMark(mark, factor) ==
    IF mark.kind = "text" THEN Null ELSE Some(mark.value * factor)

\* d.get(k, 0)
RangeOrZero(o) == IF IsNull(o) THEN 0 ELSE o[1]

\* fetch_station_scale(url, conversion_factor).  The dict of the return
\* statement is built key by key; the third key reads RangeFactorName.
FetchStationScale(u, factor, resp) ==
    IF u = "" THEN EmptyScale
    ELSE IF resp.status = "raise" THEN EmptyScale
    ELSE IF resp.items.form # "object" THEN EmptyScale
    ELSE IF RaisesNameError(RangeFactorName) THEN EmptyScale
    ELSE [status |-> "record",
          maxOnRecord |-> ScaleMark(resp.items.maxOnRecord, factor),
          minOnRecord |-> ScaleMark(resp.items.minOnRecord, factor),
          typicalRangeHigh |-> RangeOrZero(resp.items.typicalRangeHigh) * factor,
          typicalRangeLow |-> RangeOrZero(resp.items.typicalRangeLow) * factor]

InitScale ==
    /\ CacheIdle
    /\ CommonIdle /\ MetaIdle /\ TrendIdle /\ LinkIdle /\ ResearchIdle /\ RainIdle
    /\ pc = "scale_start"
    /\ url \in ScaleUrls
    /\ conversion_factor \in ScaleFactors
    /\ scaleResp \in ScaleResponses
    /\ scale = NoScale

CallFetchStationScale ==
    /\ pc = "scale_start"
    /\ scale' = FetchStationScale(url, conversion_factor, scaleResp)
    /\ pc' = "scale_done"
    /\ UNCHANGED <<url, conversion_factor, scaleResp>>
    /\ UNCHANGED <<commonVars, metaVars, trendVars, linkVars, researchVars, rainVars, cacheVars>>

NextScale == CallFetchStationScale

SpecScale == InitScale /\ [][NextScale]_vars

\* The request succeeded with a well-formed response: an object whose two
\* record levels are objects and whose typical range is given.
WellFormedScale ==
    /\ scaleResp.status = "ok"
    /\ scaleResp.items.form = "object"
    /\ scaleResp.items.maxOnRecord.kind = "object"
    /\ scaleResp.items.minOnRecord.kind = "object"
    /\ ~IsNull(scaleResp.items.typicalRangeHigh)
    /\ ~IsNull(scaleResp.items.typicalRangeLow)

\* C30: for a non-empty URL whose request succeeds with a well-formed
\* response, fetch_station_scale returns a record with maxOnRecord,
\* minOnRecord, typicalRangeHigh and typicalRangeLow whose values are the
\* endpoint's values multiplied by the given conversion_factor; it returns
\* the empty record only when the URL is empty or the request or the parsing
\* of the response fails.
C30_ScaleRecordTimesFactor ==
    pc = "scale_done" =>
        /\ (url # "" /\ WellFormedScale) =>
               /\ scale.status = "record"
               /\ scale.maxOnRecord
                      = Some(scaleResp.items.maxOnRecord.value * conversion_factor)
               /\ scale.minOnRecord
                      = Some(scaleResp.items.minOnRecord.value * conversion_factor)
               /\ scale.typicalRangeHigh
                      = scaleResp.items.typicalRangeHigh[1] * conversion_factor
               /\ scale.typicalRangeLow
                      = scaleResp.items.typicalRangeLow[1] * conversion_factor
        /\ scale.status = "empty" =>
               \/ url = ""
               \/ scaleResp.status = "raise"
               \/ scaleResp.items.form # "object"

=============================================================================
